---- MODULE Spec2Model ----
(***************************************************************************)
(* Tegra210 XUSB pad controller (drivers/phy/tegra/xusb-tegra210.c):       *)
(* the shared enable/disable reference count, the UPHY PLL calibration     *)
(* sequences for the PCIe (P0) and SATA (S0) PLLs and the top-level ELPG   *)
(* clamps (Spec); the port <-> lane map tables and their lookups           *)
(* (SpecMap); enable / disable of the SuperSpeed ports and the sleepwalk   *)
(* and wake operations of their lanes (SpecUsb3); the VBUS / ID overrides  *)
(* and the deferred OTG handler (SpecOtg); the phy_wake / phy_sleepwalk    *)
(* dispatch and the wake register of all lane kinds (SpecWake); power on / *)
(* off of the USB2 pad and the sleepwalk snapshot of its lanes (SpecUsb2); *)
(* init / exit of the lanes of the four pads (SpecLaneInit); the          *)
(* calibration with its polls as loops over a deadline, under fair         *)
(* scheduling (SpecLive); power on / off of the HSIC lane (SpecHsic); the  *)
(* overrides issued one call at a time (SpecOtgSeq); USB2 lanes with a     *)
(* fake SuperSpeed port (SpecUsb2Fake); the HS_CURR_LEVEL write of USB2    *)
(* power on over all fuse trims (SpecUsb2Level); the USB2 sleepwalk        *)
(* hand-over of the PMC, drivers/soc/tegra/pmc.c (SpecPmc).  Every caller  *)
(* is a thread with a program counter; one action per register write, poll *)
(* or call of the source.                                                  *)
(***************************************************************************)
EXTENDS Integers, Sequences, FiniteSets, TLC

\* ------------------------------------------------------------------ bounds
\* total number of tegra210_xusb_padctl_enable/_disable calls in a behaviour
MaxCalls == 4

\* total number of vbus_override / id_override calls in a behaviour
MaxOverrides == 3

\* total number of SuperSpeed port enable / disable, sleepwalk and wake calls
MaxPortOps == 3

\* the concurrent callers (bus-controller drivers calling phy init / exit)
Threads == {1, 2}

NoThread == 0

\* the work-queue thread that runs padctl->otg_vbus_work
Worker == 3

\* --------------------------------------------------------- program constants
ETIMEDOUT == 110
EIO == 5

FREQ_NDIV_USB_VAL == 25
FREQ_NDIV_SATA_VAL == 30
TXCLKREF_SEL_USB_VAL == 2
TXCLKREF_SEL_SATA_VAL == 0
CAL_CTRL_VAL == 310
DCO_CTRL_VAL == 42

ENODEV == 19
EINVAL == 22

\* value an unsigned lookup hands back for "return -1": UINT_MAX, kept symbolic
NoPort == -1

\* values of the ID_OVERRIDE field of XUSB_PADCTL_USB2_VBUS_ID
ID_OVERRIDE_GROUNDED == 0
ID_OVERRIDE_FLOATING == 8

\* value of a SS_PORT_MAP field that maps the port to no USB2 port
PORTX_MAP_DISABLED == 7

\* the local timeout of a thread that is in no poll loop
NoTimeout == -1

\* no lane: the forward lookup found no match
NoLane == [type |-> "none", index |-> 0]

\* the SuperSpeed ports of the controller (ports.usb3.count)
SsPorts == 0 .. 3

\* the electrical trims of a SuperSpeed port, in register order ECTL1 .. ECTL6
Trims == {"TX_TERM_CTRL", "RX_CTLE", "RX_DFE", "RX_CDR_CTRL", "RX_EQ_CTRL_H"}

\* the two UPHY PLL register banks: P0 (PCIe class), S0 (SATA class)
PllKinds == {"P0", "S0"}

\* the SoC variants told apart by t210b01_compatible()
Socs == {"tegra210", "tegra210b01"}

VARIABLES
    soc,            \* compatible string of the device node
    sata_used_by_xusb, \* priv->sata_used_by_xusb
    lock,           \* padctl->lock: NoThread or the thread that took it
    enable,         \* padctl->enable, as a mathematical integer: a value below 0
                    \* stands for the wrap-around of the unsigned counter
    pc,             \* per thread: position in the code
    tmp,            \* per thread: value of padctl->enable read by enable++ / --enable
    err,            \* per thread: local err of tegra210_{pex,sata}_uphy_enable
    uret,           \* per thread: value returned by the last tegra210_*_uphy_enable
    ret,            \* per thread: return value of the last finished call
    cur,            \* per thread: PLL bank the thread is calibrating
    pll,            \* XUSB_PADCTL_UPHY_PLL_{P0,S0}_CTL* fields
    ctl10,          \* XUSB_PADCTL_UPHY_PLL_S0_CTL10 (last CFG word written)
    elpg1,          \* AUX_MUX_LP0_* bits of XUSB_PADCTL_ELPG_PROGRAM_1
    clk,            \* PLLE / UPHY management clock / hardware sequencers
    dmesg,          \* per thread: messages logged by dev_err / WARN_ON in the
                    \* function it is running
    tmo,            \* per thread: the latest poll of the running calibration that
                    \* ran out of time, or "none"
    sawTmo,         \* per thread: some poll timed out during its current/last call
    rstFailed,      \* per thread: the reset deassert of the running calibration failed
    trace,          \* hardware events of the current bring-up epoch
    hist,           \* operations of the calls so far, in the order in which they
                    \* took padctl->lock
    op,             \* per thread: the call it is in, or "none"
    contended,      \* some call was issued while another thread held the lock
    warned,         \* some tegra210_xusb_padctl_disable found padctl->enable == 0
    n01, n10,       \* number of 0->1 / 1->0 transitions of padctl->enable
    nCal,           \* per PLL: number of runs of its calibration sequence
    nRel, nReap,    \* completed top-level clamp releases / re-applications
    usb3_port,      \* per SuperSpeed port: usb3->port, its USB2 companion port
    usb3_internal,  \* per SuperSpeed port: usb3->internal
    ss_port_map,    \* XUSB_PADCTL_SS_PORT_MAP: per port its MAP field and INTERNAL bit
    sspx,           \* SSPX_ELPG_* bits of XUSB_PADCTL_ELPG_PROGRAM_1, per port
    ectl,           \* per port: the UPHY_USB3_PADX_ECTL* trims that hold their _VAL
    elpg0,          \* XUSB_PADCTL_ELPG_PROGRAM_0: the set of bit numbers that are set
    index,          \* per thread: local index (a SuperSpeed port number or NoPort)
    lane,           \* per thread: the lane the call it is in works on, or NoLane
    port,           \* per thread: the SuperSpeed port argument of the call it is in
    xusb_lanes,     \* the lanes whose function is "xusb" in the device tree
    step,           \* per thread: the register write of tegra210_usb3_port_enable /
                    \* _disable it makes next
    nPortOps,       \* number of SuperSpeed port / lane operations so far
    otg_vbus_alwayson, \* padctl->otg_vbus_alwayson
    oc_pinctrl,     \* padctl->oc_pinctrl && port->oc_pin >= 0 for the OTG port
    vbus_id,        \* XUSB_PADCTL_USB2_VBUS_ID: VBUS_OVERRIDE_VBUS_ON bit, ID_OVERRIDE field
    otg_vbus_on,    \* padctl->otg_vbus_on
    supply,         \* port->supply of the OTG port: "none" (no vbus-supply), or the
                    \* regulator "off" / "on"
    vbus_en,        \* state selected for the VBUS_EN pin of the OTG port
    work,           \* padctl->otg_vbus_work is pending
    wpc,            \* position of the work-queue thread in the OTG handler
    wreg,           \* local reg of tegra210_xusb_padctl_otg_vbus_handle
    rc,             \* local rc of tegra210_xusb_padctl_vbus_power_on / _off
    reg,            \* per thread: local reg of vbus_override / id_override
    set,            \* per thread: argument set of vbus_override / id_override
    nOvr,           \* number of vbus_override / id_override calls so far
    nRun, nSw,      \* history: runs of the OTG handler that read the VBUS/ID register,
                    \* and switches of bus power made by such runs, since the last
                    \* write of the register by vbus_override / id_override
    wake_w1c,       \* the hardware clears a wake-event bit of ELPG_PROGRAM_0 that is
                    \* written as 1 and keeps one written as 0 (else it stores the
                    \* value written)
    impl,           \* per thread: the implementation its phy_wake / phy_sleepwalk call
                    \* was dispatched to
    wen,            \* per thread: argument enable of phy_wake / phy_sleepwalk
    speed,          \* per thread: argument speed of phy_sleepwalk
    reg0,           \* per thread: local reg of the wake functions, the value last
                    \* written to ELPG_PROGRAM_0
    nEvt,           \* number of wake events the hardware has raised
    nLaneOps,       \* number of phy_wake / phy_sleepwalk calls so far
    pmc,            \* per thread: the call it makes to the Power-Management controller
    utmi_pad_cfg,   \* priv->utmi_pad_cfg
    bias_pad_ctl1,  \* XUSB_PADCTL_USB2_BIAS_PAD_CTL_1
    otg_pad_ctl1,   \* per USB2 lane: XUSB_PADCTL_USB2_OTG_PADX_CTL_1
    fuse,           \* priv->fuse: the calibration values read from the fuses
    bias_pd,        \* XUSB_PADCTL_USB2_BIAS_PAD_CTL0_PD
    usb2_enable,    \* pad->enable of the USB2 pad
    usb2_clk,       \* enable count of pad->clk, the USB2 tracking clock
    nUsb2Ops,       \* number of USB2 lane power_on / power_off calls so far
    held,           \* per thread: the lane whose phy it has initialised and not
                    \* yet exited (the phy core pairs exit with init)
    pad_mux,        \* XUSB_PADCTL_USB2_PAD_MUX
    port_supply,    \* per USB2 lane: enable count of port->supply
    usb2_otg_port_base_1,   \* padctl->usb2_otg_port_base_1
    timeout,        \* per thread: local timeout of tegra210_{pex,sata}_uphy_enable,
                    \* as the number of jiffies left until it, or NoTimeout
    hsic_regs,      \* XUSB_PADCTL_HSIC_PAD0_CTL0 / _CTL1 (sets of bit numbers), _CTL2,
                    \* HSIC_STRB_TRIM_CONTROL and HSIC_PAD_TRK_CTL (fields)
    hsic_lane,      \* the trims of the HSIC lane: hsic->tx_rtune_p, ->strobe_trim,
                    \* ->rx_strobe_trim, ->rx_data_trim
    hsic_supply,    \* enable count of pad->supply of the HSIC pad
    hsic_clk,       \* enable count of pad->clk of the HSIC pad
    hsic_power,     \* phy->power_count of the HSIC phy
    nHsicOps,       \* number of HSIC lane power_on / power_off calls so far
    usb3_port_fake, \* per USB2 port: port->usb3_port_fake, the SuperSpeed port that
                    \* stands in for it, or NoPort (-1)
    otg_pad_ctl0,   \* per USB2 lane: XUSB_PADCTL_USB2_OTG_PADX_CTL0, the set of bit
                    \* numbers that are set
    hs_curr_level,  \* per USB2 lane: priv->fuse.hs_curr_level[]
    hs_curr_level_offset, \* per USB2 lane: usb2->hs_curr_level_offset
    pmc_regs,       \* the USB2 sleepwalk registers of the PMC, by offset: the set
                    \* of bit numbers that are set
    pmc_step,       \* per thread: the register write of tegra_pmc_utmi_phy_enable_
                    \* / _disable_sleepwalk it makes next
    nPmcOps         \* number of PMC sleepwalk hand-overs so far

vars == <<soc, sata_used_by_xusb, lock, enable, pc, tmp, err, uret, ret, cur, pll,
          ctl10, elpg1, clk, dmesg, tmo, sawTmo, rstFailed, trace, hist,
          op, contended, warned, n01, n10, nCal, nRel, nReap,
          usb3_port, usb3_internal, ss_port_map, sspx, ectl, elpg0, index, lane,
          port, xusb_lanes, step, nPortOps,
          otg_vbus_alwayson, oc_pinctrl, vbus_id, otg_vbus_on, supply, vbus_en,
          work, wpc, wreg, rc, reg, set, nOvr, nRun, nSw,
          wake_w1c, impl, wen, speed, reg0, nEvt, nLaneOps, pmc, utmi_pad_cfg,
          bias_pad_ctl1,
          otg_pad_ctl1, fuse, bias_pd, usb2_enable, usb2_clk, nUsb2Ops,
          held, pad_mux, port_supply, usb2_otg_port_base_1, timeout,
          hsic_regs, hsic_lane, hsic_supply, hsic_clk, hsic_power, nHsicOps,
          usb3_port_fake, otg_pad_ctl0, hs_curr_level, hs_curr_level_offset,
          pmc_regs, pmc_step, nPmcOps>>

\* ------------------------------------------------------------------ helpers
t210b01_compatible == IF soc = "tegra210b01" THEN 1 ELSE 0

PllResetValue ==
    [PWR_OVRD |-> 0, CAL_OVRD |-> 0, RCAL_OVRD |-> 0, CAL_EN |-> 0,
     ENABLE |-> 0, RCAL_EN |-> 0, RCAL_CLK_EN |-> 0, IDDQ |-> 1, SLEEP |-> 3,
     REFCLKBUF_EN |-> 0, TXCLKREF_EN |-> 0, TXCLKREF_SEL |-> 0,
     REFCLK_SEL |-> 0, FREQ_NDIV |-> 0, FREQ_MDIV |-> 0, CAL_CTRL |-> 0,
     DCO_CTRL |-> 0]

Goto(t, p) == pc' = [pc EXCEPT ![t] = p]

Emit(t, k, ev) == trace' = Append(trace, [t |-> t, k |-> k, ev |-> ev])

\* a lock that excludes nobody
LockFree_none == TRUE

\* mutex_lock(&padctl->lock) can proceed
LockFree == lock = NoThread

\* the pad whose lanes a thread drives: the two callers sit on different pads
\* where the SoC has two UPHY pads (tegra210_pads / tegra210b01_pads)
PadOf(t) == IF t = 1 \/ soc = "tegra210b01" THEN "pcie" ELSE "sata"

\* outcomes of clk_prepare_enable() and reset_control_deassert()
ClkErrs == {0, -EIO}
RstErrs == {0, -EIO, -ETIMEDOUT}

\* outcome of one bounded poll loop followed by its time_after_eq() test:
\*   "ok"      the status bit was seen before the deadline
\*   "timeout" the loop ran out of time without seeing the bit
\*   "late"    the bit was seen, but jiffies reached the deadline before the test
PollOutcomes == {"ok", "timeout", "late"}

\* ---------------------------------------------------------------- initial state
\* the reference count, the PLLs and the callers after probe
InitPadctl ==
    /\ soc \in Socs
    /\ sata_used_by_xusb \in (IF soc = "tegra210" THEN BOOLEAN ELSE {FALSE})
    /\ lock = NoThread
    /\ enable = 0
    /\ pc = [t \in Threads |-> "idle"]
    /\ tmp = [t \in Threads |-> 0]
    /\ err = [t \in Threads |-> 0]
    /\ uret = [t \in Threads |-> 0]
    /\ ret = [t \in Threads |-> 0]
    /\ cur = [t \in Threads |-> "none"]
    /\ pll = [k \in PllKinds |-> PllResetValue]
    /\ ctl10 = 0
    /\ elpg1 = [CLAMP_EN |-> 1, CLAMP_EN_EARLY |-> 1, VCORE_DOWN |-> 1]
    /\ clk = [plle |-> 0, mgmt |-> 0, plle_hw |-> FALSE, hw_ctl |-> {}, hw_seq |-> {}]
    /\ dmesg = [t \in Threads |-> {}]
    /\ tmo = [t \in Threads |-> "none"]
    /\ sawTmo = [t \in Threads |-> FALSE]
    /\ rstFailed = [t \in Threads |-> FALSE]
    /\ trace = <<>>
    /\ hist = <<>>
    /\ op = [t \in Threads |-> "none"]
    /\ contended = FALSE
    /\ warned = FALSE
    /\ n01 = 0
    /\ n10 = 0
    /\ nCal = [k \in PllKinds |-> 0]
    /\ nRel = 0
    /\ nReap = 0

\* no call made to the Power-Management controller yet
NoPmcCall ==
    [op |-> "none", index |-> 0, speed |-> "USB_SPEED_UNKNOWN",
     tctrl |-> 0, pctrl |-> 0, rpd_ctrl |-> 0]

\* the lanes of the USB2 pad
Usb2Lanes == 0 .. 3

\* the SuperSpeed port registers before any port was enabled
InitUsb3Regs ==
    /\ ss_port_map = [p \in SsPorts |-> [MAP |-> PORTX_MAP_DISABLED, INTERNAL |-> 0]]
    /\ sspx = [p \in SsPorts |-> [CLAMP_EN |-> 1, CLAMP_EN_EARLY |-> 1, VCORE_DOWN |-> 1]]
    /\ ectl = [p \in SsPorts |-> {}]
    /\ elpg0 = {}
    /\ index = [t \in Threads |-> 0]
    /\ lane = [t \in Threads |-> NoLane]
    /\ port = [t \in Threads |-> 0]
    /\ step = [t \in Threads |-> 1]
    /\ nPortOps = 0

\* the OTG port with no cable attached and its work item idle
InitOtgState ==
    /\ vbus_id = [VBUS_ON |-> 0, ID |-> ID_OVERRIDE_FLOATING]
    /\ otg_vbus_on = FALSE
    /\ vbus_en = FALSE
    /\ work = FALSE
    /\ wpc = "idle"
    /\ wreg = vbus_id
    /\ rc = 0
    /\ reg = [t \in Threads |-> vbus_id]
    /\ set = [t \in Threads |-> FALSE]
    /\ nOvr = 0
    /\ nRun = 0
    /\ nSw = 0

\* offsets of the PMC registers the USB2 sleepwalk hand-over programs:
\* USB_DEBOUNCE_DEL, USB_AO, UTMIP_UHSIC_TRIGGERS, _SAVED_STATE, _SLEEP_CFG,
\* _SLEEPWALK_CFG, UTMIP_SLEEPWALK_P0 .. P2, UTMIP_UHSIC_FAKE, _LINE_WAKEUP,
\* UTMIP_MASTER_CONFIG, the registers of port 3 (0x280, 0x288, 0x294), the
\* second sleep configuration register 0x4d0, UTMIP_SLEEPWALK_P3,
\* UTMIP_TERM_PAD_CFG and UTMIP_PAD_CFG0 .. 3
PmcOffsets ==
    {236, 240, 492, 496, 504, 508, 512, 516, 520, 524, 536, 620, 628, 640, 648,
     660, 1216, 1220, 1224, 1228, 1232, 1248}

\* XUSB_PADCTL_HSIC_PAD_CTL0_PD_{TX,RX,ZI}_{DATA0,DATA1,STROBE}: bits 1 .. 9
HSIC_PAD_CTL0_PD == 1 .. 9

\* XUSB_PADCTL_HSIC_PAD_CTL0_RPD_{DATA0,DATA1,STROBE} and _RPU_{DATA0,DATA1,STROBE}
HSIC_PAD_CTL0_RPD == 13 .. 15
HSIC_PAD_CTL0_RPU == 16 .. 18

\* the bits of the TX_RTUNEP field of XUSB_PADCTL_HSIC_PADX_CTL1: mask 0xf, shift 0
HSIC_PAD_CTL1_TX_RTUNEP == 0 .. 3

\* the bits that are set in the value v (below 2^16) placed at bit shift of a
\* register
BitsOf(v, shift) == {b \in shift .. shift + 15 : (v \div (2 ^ (b - shift))) % 2 = 1}

\* the HSIC pad registers with the pad powered down and no trim programmed
HsicRegsDown ==
    [ctl0 |-> HSIC_PAD_CTL0_PD, ctl1 |-> {},
     ctl2 |-> [RX_STROBE_TRIM |-> 0, RX_DATA_TRIM |-> 0], strb_trim |-> 0,
     trk_ctl |-> [PD_TRK |-> 1, TRK_START_TIMER |-> 0, TRK_DONE_RESET_TIMER |-> 0]]

\* the USB2 ports have no fake SuperSpeed port, the OTG pads are as a power_on
\* with a current level of 0 leaves them, and no PMC sleepwalk register has a
\* bit set
InitPadDefaults ==
    /\ usb3_port_fake = [i \in 0 .. 1 |-> NoPort]
    /\ otg_pad_ctl0 = [i \in 0 .. 3 |-> {}]
    /\ hs_curr_level = [i \in 0 .. 3 |-> 0]
    /\ hs_curr_level_offset = [i \in 0 .. 3 |-> 0]
    /\ pmc_regs = [o \in PmcOffsets |-> {}]

InitHsicRegs ==
    /\ hsic_regs = HsicRegsDown
    /\ hsic_lane = [tx_rtune_p |-> 0, strobe_trim |-> 0, rx_strobe_trim |-> 0,
                    rx_data_trim |-> 0]

\* the lane operations before any call, the wake register clear and the USB2
\* pad powered down
InitLaneState ==
    /\ timeout = [t \in Threads |-> NoTimeout]
    /\ hsic_supply = 0 /\ hsic_clk = 0 /\ hsic_power = 0 /\ nHsicOps = 0
    /\ pmc_step = [t \in Threads |-> 1] /\ nPmcOps = 0
    /\ impl = [t \in Threads |-> "none"]
    /\ wen = [t \in Threads |-> FALSE]
    /\ speed = [t \in Threads |-> "USB_SPEED_UNKNOWN"]
    /\ reg0 = [t \in Threads |-> {}]
    /\ nEvt = 0
    /\ nLaneOps = 0
    /\ pmc = [t \in Threads |-> NoPmcCall]
    /\ utmi_pad_cfg = [tctrl |-> 0, pctrl |-> 0, rpd_ctrl |-> 0]
    /\ otg_pad_ctl1 = [i \in Usb2Lanes |-> 0]
    /\ bias_pd = 1
    /\ usb2_enable = 0
    /\ usb2_clk = 0
    /\ nUsb2Ops = 0
    /\ held = [t \in Threads |-> NoLane]
    /\ pad_mux = 0
    /\ port_supply = [i \in Usb2Lanes |-> 0]
    /\ usb2_otg_port_base_1 = 0

Init ==
    /\ InitPadctl
    /\ InitUsb3Regs
    /\ InitOtgState
    /\ InitLaneState
    /\ InitHsicRegs
    /\ InitPadDefaults
    /\ wake_w1c = FALSE
    /\ bias_pad_ctl1 = 0
    /\ fuse = [rpd_ctrl |-> 0, hs_term_range_adj |-> 0]
    /\ usb3_port = [p \in SsPorts |-> p]
    /\ usb3_internal = [p \in SsPorts |-> FALSE]
    /\ xusb_lanes = {}
    /\ otg_vbus_alwayson = FALSE
    /\ oc_pinctrl = FALSE
    /\ supply = "off"

\* groups of variables left alone together
hwVars == <<pll, ctl10, elpg1, clk>>
cntVars == <<n01, n10, nCal, nRel, nReap>>
cfgVars == <<soc, sata_used_by_xusb, warned>>
locVars == <<tmp, err, uret, ret, cur>>
callVars == <<hist, op, contended>>
logVars == <<dmesg, tmo, sawTmo, rstFailed>>
usb3Cfg == <<usb3_port, usb3_internal, xusb_lanes>>
usb3Regs == <<ss_port_map, sspx, ectl, elpg0>>
usb3Vars == <<usb3Cfg, usb3Regs, index, lane, port, step, nPortOps>>
otgCfg == <<otg_vbus_alwayson, oc_pinctrl>>
wakeVars == <<wake_w1c, impl, wen, speed, reg0, nEvt, nLaneOps, pmc, utmi_pad_cfg>>
usb2Regs == <<bias_pad_ctl1, otg_pad_ctl1, bias_pd>>
usb2Vars == <<usb2Regs, fuse, usb2_enable, usb2_clk, nUsb2Ops>>
initVars == <<held, pad_mux, port_supply, usb2_otg_port_base_1>>
hsicVars == <<hsic_regs, hsic_lane, hsic_supply, hsic_clk, hsic_power, nHsicOps>>
padCfgVars == <<usb3_port_fake, hs_curr_level, hs_curr_level_offset>>
pmcVars == <<pmc_regs, pmc_step, nPmcOps>>
tailVars == <<hsicVars, padCfgVars, otg_pad_ctl0, pmcVars>>
laneVars == <<wakeVars, usb2Vars, initVars, timeout, tailVars>>
runVars == <<nRun, nSw>>
\* the state of the OTG arbiter and, as no action outside the lane operations
\* touches it, that of the lane operations
otgVars == <<otgCfg, vbus_id, otg_vbus_on, supply, vbus_en, work, wpc, wreg, rc,
             reg, set, nOvr, runVars, laneVars>>

\* ------------------------------------------------- phy init / exit entry points
\* number of calls that have been issued and wait for padctl->lock
Waiting == Cardinality({t \in Threads : pc[t] \in {"e_lock", "d_lock"}})

\* a caller enters tegra210_xusb_padctl_enable
CallEnable(t) ==
    /\ pc[t] = "idle"
    /\ Len(hist) + Waiting < MaxCalls
    /\ op' = [op EXCEPT ![t] = "enable"]
    /\ contended' = (contended \/ lock \notin {NoThread, t})
    /\ Goto(t, "e_lock")
    /\ UNCHANGED <<usb3Vars, otgVars, cfgVars, lock, enable, locVars, hwVars, logVars, trace,
                   hist, cntVars>>

\* a caller enters tegra210_xusb_padctl_disable
CallDisable(t) ==
    /\ pc[t] = "idle"
    /\ Len(hist) + Waiting < MaxCalls
    /\ op' = [op EXCEPT ![t] = "disable"]
    /\ contended' = (contended \/ lock \notin {NoThread, t})
    /\ Goto(t, "d_lock")
    /\ UNCHANGED <<usb3Vars, otgVars, cfgVars, lock, enable, locVars, hwVars, logVars, trace,
                   hist, cntVars>>

tegra210_pcie_phy_init(t) == PadOf(t) = "pcie" /\ CallEnable(t)

tegra210_sata_phy_init(t) == PadOf(t) = "sata" /\ CallEnable(t)

tegra210_pcie_phy_exit(t) == PadOf(t) = "pcie" /\ CallDisable(t)

tegra210_sata_phy_exit(t) == PadOf(t) = "sata" /\ CallDisable(t)

\* ------------------------------------------------- tegra210_xusb_padctl_enable
\* mutex_lock(&padctl->lock)
padctl_enable_lock(t) ==
    /\ pc[t] = "e_lock"
    /\ LockFree
    /\ lock' = t
    /\ hist' = Append(hist, "enable")
    /\ Goto(t, "e_read")
    /\ UNCHANGED <<usb3Vars, otgVars, cfgVars, enable, locVars, hwVars, logVars, trace, op,
                   contended, cntVars>>

\* padctl->enable++ : the read of the old value
padctl_enable_read(t) ==
    /\ pc[t] = "e_read"
    /\ tmp' = [tmp EXCEPT ![t] = enable]
    /\ Goto(t, "e_incr")
    /\ UNCHANGED <<usb3Vars, otgVars, cfgVars, lock, enable, err, uret, ret, cur, hwVars, logVars,
                   trace, callVars, cntVars>>

\* padctl->enable++ > 0 : the store and the test; a first user starts a new
\* bring-up epoch
padctl_enable_incr(t) ==
    /\ pc[t] = "e_incr"
    /\ enable' = tmp[t] + 1
    /\ IF tmp[t] > 0
          THEN /\ Goto(t, "e_out")
               /\ UNCHANGED trace
          ELSE /\ Goto(t, "e_plle")
               /\ trace' = <<>>
    /\ n01' = IF enable = 0 /\ enable' = 1 THEN n01 + 1 ELSE n01
    /\ UNCHANGED <<usb3Vars, otgVars, cfgVars, lock, locVars, hwVars, logVars, callVars,
                   n10, nCal, nRel, nReap>>

\* tegra210_plle_hw_sequence_is_enabled() warning, then
\* err = clk_prepare_enable(priv->plle); if (err < 0) return err;
padctl_enable_plle(t) ==
    /\ pc[t] = "e_plle"
    /\ \E e \in ClkErrs :
         /\ dmesg' = [dmesg EXCEPT ![t] =
                        IF clk.plle_hw THEN @ \cup {"PLLE was in HW before init!"}
                                       ELSE @]
         /\ IF e < 0
               THEN /\ ret' = [ret EXCEPT ![t] = e]
                    /\ Goto(t, "ret")
                    /\ UNCHANGED <<clk, trace, cur>>
               ELSE /\ clk' = [clk EXCEPT !.plle = @ + 1]
                    /\ Emit(t, "TOP", "plle_en")
                    /\ IF t210b01_compatible = 1
                          THEN Goto(t, "e_mgmt") /\ UNCHANGED cur
                          ELSE Goto(t, "u_rst") /\ cur' = [cur EXCEPT ![t] = "P0"]
                    /\ UNCHANGED ret
    /\ UNCHANGED <<usb3Vars, otgVars, cfgVars, lock, enable, tmp, err, uret, pll, ctl10, elpg1,
                   tmo, sawTmo, rstFailed, callVars, cntVars>>

\* if (t210b01_compatible(padctl) == 1) {
\*     err = clk_prepare_enable(priv->uphy_mgmt_clk); if (err < 0) return err; }
padctl_enable_mgmt(t) ==
    /\ pc[t] = "e_mgmt"
    /\ \E e \in ClkErrs :
         IF e < 0
            THEN /\ ret' = [ret EXCEPT ![t] = e]
                 /\ Goto(t, "ret")
                 /\ UNCHANGED <<clk, trace, cur>>
            ELSE /\ clk' = [clk EXCEPT !.mgmt = @ + 1]
                 /\ Emit(t, "TOP", "mgmt_en")
                 /\ Goto(t, "u_rst")
                 /\ cur' = [cur EXCEPT ![t] = "P0"]
                 /\ UNCHANGED ret
    /\ UNCHANGED <<usb3Vars, otgVars, cfgVars, lock, enable, tmp, err, uret, pll, ctl10, elpg1,
                   logVars, callVars, cntVars>>

\* ------------------------- tegra210_pex_uphy_enable / tegra210_sata_uphy_enable
\* (both run with padctl->lock held; cur[t] is the bank, P0 or S0)

\* one read-modify-write of a PLL control register
PllWrite(t, from, to, newpll, ev) ==
    /\ pc[t] = from
    /\ pll' = newpll
    /\ Emit(t, cur[t], ev)
    /\ Goto(t, to)
    /\ UNCHANGED <<usb3Vars, otgVars, cfgVars, lock, enable, locVars, ctl10, elpg1, clk,
                   logVars, callVars, cntVars>>

\* a poll that, once out of time, jumps over the remaining calibration steps
Poll_skip(t, from, to, name) ==
    /\ pc[t] = from
    /\ \E o \in PollOutcomes :
         /\ err' = [err EXCEPT ![t] = IF o = "ok" THEN @ ELSE -ETIMEDOUT]
         /\ tmo' = [tmo EXCEPT ![t] = IF o = "timeout" THEN name ELSE @]
         /\ sawTmo' = [sawTmo EXCEPT ![t] = @ \/ (o = "timeout")]
         /\ Goto(t, IF o = "timeout" THEN "u_hw_ctl" ELSE to)
    /\ Emit(t, cur[t], name)
    /\ UNCHANGED <<usb3Vars, otgVars, cfgVars, lock, enable, tmp, uret, ret, cur, hwVars, dmesg,
                   rstFailed, callVars, cntVars>>

\* a poll that, once out of time, returns -ETIMEDOUT from the function
Poll_abort(t, from, to, name) ==
    /\ pc[t] = from
    /\ \E o \in PollOutcomes :
         /\ err' = [err EXCEPT ![t] = IF o = "ok" THEN @ ELSE -ETIMEDOUT]
         /\ tmo' = [tmo EXCEPT ![t] = IF o = "timeout" THEN name ELSE @]
         /\ sawTmo' = [sawTmo EXCEPT ![t] = @ \/ (o = "timeout")]
         /\ uret' = [uret EXCEPT ![t] = IF o = "timeout" THEN -ETIMEDOUT ELSE @]
         /\ Goto(t, IF o = "timeout" THEN "u_ret" ELSE to)
    /\ Emit(t, cur[t], name)
    /\ UNCHANGED <<usb3Vars, otgVars, cfgVars, lock, enable, tmp, ret, cur, hwVars, dmesg,
                   rstFailed, callVars, cntVars>>

\* timeout = jiffies + msecs_to_jiffies(100); while (time_before(...)) { read;
\* if (status) break; usleep_range(10, 20); }
\* if (time_after_eq(jiffies, timeout)) err = -ETIMEDOUT;
\* -- the code goes on to the next statement whatever the outcome
Poll(t, from, to, name) ==
    /\ pc[t] = from
    /\ \E o \in PollOutcomes :
         /\ err' = [err EXCEPT ![t] = IF o = "ok" THEN @ ELSE -ETIMEDOUT]
         /\ tmo' = [tmo EXCEPT ![t] = IF o = "timeout" THEN name ELSE @]
         /\ sawTmo' = [sawTmo EXCEPT ![t] = @ \/ (o = "timeout")]
    /\ Emit(t, cur[t], name)
    /\ Goto(t, to)
    /\ UNCHANGED <<usb3Vars, otgVars, cfgVars, lock, enable, tmp, uret, ret, cur, hwVars, dmesg,
                   rstFailed, callVars, cntVars>>

ResetMsg(k) == IF k = "P0" THEN "failed to deassert UPHY PEX PLL reset"
                           ELSE "failed to deassert UPHY SATA PLL reset"

TimeoutMsg(k) == IF k = "P0" THEN "UPHY PEX PLL calibration timeout"
                             ELSE "UPHY SATA PLL calibration timeout"

\* err = reset_control_deassert(rst); if (err < 0) dev_err(...);
\* -- no return: the function carries on
uphy_rst(t) ==
    /\ pc[t] = "u_rst"
    /\ \E e \in RstErrs :
         /\ err' = [err EXCEPT ![t] = e]
         /\ IF e < 0
               THEN /\ dmesg' = [dmesg EXCEPT ![t] = @ \cup {ResetMsg(cur[t])}]
                    /\ rstFailed' = [rstFailed EXCEPT ![t] = TRUE]
               ELSE /\ rstFailed' = [rstFailed EXCEPT ![t] = FALSE]
                    /\ UNCHANGED dmesg
    /\ tmo' = [tmo EXCEPT ![t] = "none"]
    /\ nCal' = [nCal EXCEPT ![cur[t]] = @ + 1]
    /\ Emit(t, cur[t], "rst")
    /\ Goto(t, IF cur[t] = "P0" /\ t210b01_compatible = 1 THEN "u_cfg"
                                                          ELSE "u_cal_ctrl")
    /\ UNCHANGED <<usb3Vars, otgVars, cfgVars, lock, enable, tmp, uret, ret, cur, pll, ctl10,
                   elpg1, clk, sawTmo, callVars, n01, n10, nRel, nReap>>

\* CFG_ADDR(a) | CFG_WDATA(d) | CFG_RESET | CFG_WS
CfgWord(a, d) == ((a % 256) * 65536) + (d % 65536) + 134217728 + 16777216

\* the tegra210b01 branch of tegra210_pex_uphy_enable: the four
\* usb3_pll_g1_init_data words go to XUSB_PADCTL_UPHY_PLL_S0_CTL10, the last
\* one stays in the register
pex_uphy_cfg(t) ==
    /\ pc[t] = "u_cfg"
    /\ ctl10' = CfgWord(30, 23)
    /\ Emit(t, cur[t], "cfg")
    /\ Goto(t, "u_pwr_ovrd")
    /\ UNCHANGED <<usb3Vars, otgVars, cfgVars, lock, enable, locVars, pll, elpg1, clk,
                   logVars, callVars, cntVars>>

uphy_cal_ctrl(t) ==
    PllWrite(t, "u_cal_ctrl", "u_dco",
             [pll EXCEPT ![cur[t]].CAL_CTRL = CAL_CTRL_VAL], "cal_ctrl")

uphy_dco_ctrl(t) ==
    PllWrite(t, "u_dco", "u_pwr_ovrd",
             [pll EXCEPT ![cur[t]].DCO_CTRL = DCO_CTRL_VAL], "dco_ctrl")

\* an enable_pll that leaves the power override to the hardware
uphy_pwr_ovrd_skip(t) ==
    PllWrite(t, "u_pwr_ovrd", "u_cal_ovrd", pll, "pwr_ovrd_set")

uphy_pwr_ovrd(t) ==
    PllWrite(t, "u_pwr_ovrd", "u_cal_ovrd",
             [pll EXCEPT ![cur[t]].PWR_OVRD = 1], "pwr_ovrd_set")

uphy_cal_ovrd(t) ==
    PllWrite(t, "u_cal_ovrd", "u_rcal_ovrd",
             [pll EXCEPT ![cur[t]].CAL_OVRD = 1], "cal_ovrd_set")

uphy_rcal_ovrd(t) ==
    PllWrite(t, "u_rcal_ovrd", "u_ctl4",
             [pll EXCEPT ![cur[t]].RCAL_OVRD = 1], "rcal_ovrd_set")

\* PEX: TXCLKREF_SEL / REFCLK_SEL cleared, TXCLKREF_SEL = USB, TXCLKREF_EN set,
\* written to P0_CTL4
pex_uphy_ctl4(t) ==
    /\ cur[t] = "P0"
    /\ PllWrite(t, "u_ctl4", "u_freq",
                [pll EXCEPT !["P0"].TXCLKREF_SEL = TXCLKREF_SEL_USB_VAL,
                            !["P0"].REFCLK_SEL = 0,
                            !["P0"].TXCLKREF_EN = 1], "ctl4")

\* SATA: the same value is computed from S0_CTL4 but the padctl_writel is
\* commented out and value is overwritten by the read of S0_CTL1: no register
\* changes
sata_uphy_ctl4(t) ==
    /\ cur[t] = "S0"
    /\ pc[t] = "u_ctl4"
    /\ Goto(t, "u_freq")
    /\ UNCHANGED <<usb3Vars, otgVars, cfgVars, lock, enable, locVars, hwVars, logVars, trace,
                   callVars, cntVars>>

FreqNdiv(k) == IF k = "P0" \/ sata_used_by_xusb THEN FREQ_NDIV_USB_VAL
                                                ELSE FREQ_NDIV_SATA_VAL

uphy_freq(t) ==
    PllWrite(t, "u_freq", "u_iddq",
             [pll EXCEPT ![cur[t]].FREQ_MDIV = 0,
                         ![cur[t]].FREQ_NDIV = FreqNdiv(cur[t])], "freq")

uphy_iddq(t) ==
    PllWrite(t, "u_iddq", "u_sleep", [pll EXCEPT ![cur[t]].IDDQ = 0], "iddq_clr")

uphy_sleep(t) ==
    PllWrite(t, "u_sleep", "u_refclkbuf",
             [pll EXCEPT ![cur[t]].SLEEP = 0], "sleep_clr")

uphy_refclkbuf(t) ==
    PllWrite(t, "u_refclkbuf", "u_cal_en",
             [pll EXCEPT ![cur[t]].REFCLKBUF_EN = 1], "refclkbuf_en")

uphy_cal_en(t) ==
    PllWrite(t, "u_cal_en", "u_wait_cal_done",
             [pll EXCEPT ![cur[t]].CAL_EN = 1], "cal_en_set")

uphy_wait_cal_done(t) == Poll(t, "u_wait_cal_done", "u_cal_en_clr", "cal_done")

uphy_cal_en_clr(t) ==
    PllWrite(t, "u_cal_en_clr", "u_wait_cal_clear",
             [pll EXCEPT ![cur[t]].CAL_EN = 0], "cal_en_clr")

uphy_wait_cal_clear(t) == Poll(t, "u_wait_cal_clear", "u_pll_en", "cal_clear")

uphy_pll_en(t) ==
    PllWrite(t, "u_pll_en", "u_wait_lockdet",
             [pll EXCEPT ![cur[t]].ENABLE = 1], "pll_en_set")

uphy_wait_lockdet(t) == Poll(t, "u_wait_lockdet", "u_rcal_en", "lockdet")

uphy_rcal_en(t) ==
    PllWrite(t, "u_rcal_en", "u_wait_rcal_done",
             [pll EXCEPT ![cur[t]].RCAL_EN = 1,
                         ![cur[t]].RCAL_CLK_EN = 1], "rcal_en_set")

uphy_wait_rcal_done(t) ==
    Poll(t, "u_wait_rcal_done", "u_rcal_en_clr", "rcal_done")

uphy_rcal_en_clr(t) ==
    PllWrite(t, "u_rcal_en_clr", "u_wait_rcal_clear",
             [pll EXCEPT ![cur[t]].RCAL_EN = 0], "rcal_en_clr")

uphy_wait_rcal_clear(t) ==
    Poll(t, "u_wait_rcal_clear", "u_rcal_clk_clr", "rcal_clear")

uphy_rcal_clk_clr(t) ==
    PllWrite(t, "u_rcal_clk_clr", "u_hw_ctl",
             [pll EXCEPT ![cur[t]].RCAL_CLK_EN = 0], "rcal_clk_clr")

\* if (err == -ETIMEDOUT) dev_err(...);
\* tegra210_xusb_pll_hw_control_enable() / tegra210_sata_pll_hw_control_enable()
uphy_hw_ctl(t) ==
    /\ pc[t] = "u_hw_ctl"
    /\ dmesg' = [dmesg EXCEPT ![t] =
                   IF err[t] = -ETIMEDOUT THEN @ \cup {TimeoutMsg(cur[t])} ELSE @]
    /\ clk' = [clk EXCEPT !.hw_ctl = @ \cup {cur[t]}]
    /\ Emit(t, cur[t], "hw_ctl")
    /\ Goto(t, "u_pwr_ovrd_clr")
    /\ UNCHANGED <<usb3Vars, otgVars, cfgVars, lock, enable, locVars, pll, ctl10, elpg1, tmo,
                   sawTmo, rstFailed, callVars, cntVars>>

uphy_pwr_ovrd_clr(t) ==
    PllWrite(t, "u_pwr_ovrd_clr", "u_cal_ovrd_clr",
             [pll EXCEPT ![cur[t]].PWR_OVRD = 0], "pwr_ovrd_clr")

uphy_cal_ovrd_clr(t) ==
    PllWrite(t, "u_cal_ovrd_clr", "u_rcal_ovrd_clr",
             [pll EXCEPT ![cur[t]].CAL_OVRD = 0], "cal_ovrd_clr")

uphy_rcal_ovrd_clr(t) ==
    PllWrite(t, "u_rcal_ovrd_clr", "u_hw_seq",
             [pll EXCEPT ![cur[t]].RCAL_OVRD = 0], "rcal_ovrd_clr")

\* tegra210_xusb_pll_hw_sequence_start() / tegra210_sata_pll_hw_sequence_start();
\* return 0;
uphy_hw_seq(t) ==
    /\ pc[t] = "u_hw_seq"
    /\ clk' = [clk EXCEPT !.hw_seq = @ \cup {cur[t]}]
    /\ uret' = [uret EXCEPT ![t] = 0]
    /\ Emit(t, cur[t], "hw_seq")
    /\ Goto(t, "u_ret")
    /\ UNCHANGED <<usb3Vars, otgVars, cfgVars, lock, enable, tmp, err, ret, cur, pll, ctl10, elpg1,
                   logVars, callVars, cntVars>>

\* ---------------------------------- tegra210_xusb_padctl_enable, continued
\* tegra210_pex_uphy_enable(padctl);
\* if (t210b01_compatible(padctl) == 0) tegra210_sata_uphy_enable(padctl);
\* -- both return values are dropped
padctl_enable_next(t) ==
    /\ pc[t] = "u_ret"
    /\ IF cur[t] = "P0" /\ t210b01_compatible = 0
          THEN /\ cur' = [cur EXCEPT ![t] = "S0"]
               /\ Goto(t, "u_rst")
          ELSE /\ cur' = [cur EXCEPT ![t] = "none"]
               /\ Goto(t, "e_plle_hw")
    /\ err' = [err EXCEPT ![t] = 0]
    /\ tmo' = [tmo EXCEPT ![t] = "none"]
    /\ rstFailed' = [rstFailed EXCEPT ![t] = FALSE]
    /\ dmesg' = [dmesg EXCEPT ![t] = @ \ {ResetMsg(cur[t]), TimeoutMsg(cur[t])}]
    /\ UNCHANGED <<usb3Vars, otgVars, cfgVars, lock, enable, tmp, uret, ret, hwVars, sawTmo,
                   trace, callVars, cntVars>>

\* tegra210_plle_hw_sequence_start()
padctl_enable_plle_hw(t) ==
    /\ pc[t] = "e_plle_hw"
    /\ clk' = [clk EXCEPT !.plle_hw = TRUE]
    /\ Emit(t, "TOP", "plle_hw")
    /\ Goto(t, "e_clamp")
    /\ UNCHANGED <<usb3Vars, otgVars, cfgVars, lock, enable, locVars, pll, ctl10, elpg1,
                   logVars, callVars, cntVars>>

\* one read-modify-write of an AUX_MUX_LP0_* bit of XUSB_PADCTL_ELPG_PROGRAM_1
ElpgWrite(t, from, to, newelpg, ev) ==
    /\ pc[t] = from
    /\ elpg1' = newelpg
    /\ Emit(t, "TOP", ev)
    /\ Goto(t, to)
    /\ UNCHANGED <<usb3Vars, otgVars, cfgVars, lock, enable, locVars, pll, ctl10, clk,
                   logVars, callVars, n01, n10, nCal>>

\* the early clamp released before the clamp
padctl_enable_clamp_swapped(t) ==
    /\ ElpgWrite(t, "e_clamp", "e_early",
                 [elpg1 EXCEPT !.CLAMP_EN_EARLY = 0], "early_clr")
    /\ UNCHANGED <<nRel, nReap>>

\* value &= ~AUX_MUX_LP0_CLAMP_EN
padctl_enable_clamp(t) ==
    /\ ElpgWrite(t, "e_clamp", "e_early",
                 [elpg1 EXCEPT !.CLAMP_EN = 0], "clamp_clr")
    /\ UNCHANGED <<nRel, nReap>>

\* value &= ~AUX_MUX_LP0_CLAMP_EN_EARLY
padctl_enable_early(t) ==
    /\ ElpgWrite(t, "e_early", "e_vcore",
                 [elpg1 EXCEPT !.CLAMP_EN_EARLY = 0], "early_clr")
    /\ UNCHANGED <<nRel, nReap>>

\* value &= ~AUX_MUX_LP0_VCORE_DOWN
padctl_enable_vcore(t) ==
    /\ ElpgWrite(t, "e_vcore", "e_out",
                 [elpg1 EXCEPT !.VCORE_DOWN = 0], "vcore_clr")
    /\ nRel' = nRel + 1
    /\ UNCHANGED nReap

\* out: mutex_unlock(&padctl->lock); return 0;
padctl_enable_out(t) ==
    /\ pc[t] = "e_out"
    /\ lock' = NoThread
    /\ ret' = [ret EXCEPT ![t] = 0]
    /\ Goto(t, "ret")
    /\ UNCHANGED <<usb3Vars, otgVars, cfgVars, enable, tmp, err, uret, cur, hwVars, logVars, trace,
                   callVars, cntVars>>

\* ------------------------------------------------ tegra210_xusb_padctl_disable
\* mutex_lock(&padctl->lock)
padctl_disable_lock(t) ==
    /\ pc[t] = "d_lock"
    /\ LockFree
    /\ lock' = t
    /\ hist' = Append(hist, "disable")
    /\ Goto(t, "d_check")
    /\ UNCHANGED <<usb3Vars, otgVars, cfgVars, enable, locVars, hwVars, logVars, trace, op,
                   contended, cntVars>>

WarnMsg == "WARN_ON(padctl->enable == 0)"

\* the check left out: every call goes on to the decrement
padctl_disable_check_nowarn(t) ==
    /\ pc[t] = "d_check"
    /\ Goto(t, "d_decr")
    /\ UNCHANGED <<usb3Vars, otgVars, cfgVars, lock, enable, locVars, hwVars, logVars, trace,
                   callVars, cntVars>>

\* if (WARN_ON(padctl->enable == 0)) goto out;
padctl_disable_check(t) ==
    /\ pc[t] = "d_check"
    /\ IF enable = 0
          THEN /\ dmesg' = [dmesg EXCEPT ![t] = @ \cup {WarnMsg}]
               /\ warned' = TRUE
               /\ Goto(t, "d_out")
          ELSE /\ Goto(t, "d_decr")
               /\ UNCHANGED <<dmesg, warned>>
    /\ UNCHANGED <<usb3Vars, otgVars, soc, sata_used_by_xusb, lock, enable, locVars, hwVars, tmo,
                   sawTmo, rstFailed, trace, callVars, cntVars>>

\* if (--padctl->enable > 0) goto out;
padctl_disable_decr(t) ==
    /\ pc[t] = "d_decr"
    /\ enable' = enable - 1
    /\ tmp' = [tmp EXCEPT ![t] = enable]
    /\ Goto(t, IF enable' > 0 THEN "d_out" ELSE "d_vcore")
    /\ n10' = IF enable = 1 /\ enable' = 0 THEN n10 + 1 ELSE n10
    /\ UNCHANGED <<usb3Vars, otgVars, cfgVars, lock, err, uret, ret, cur, hwVars, logVars, trace,
                   callVars, n01, nCal, nRel, nReap>>

\* the clamp applied before the core rail is taken down
padctl_disable_vcore_swapped(t) ==
    /\ ElpgWrite(t, "d_vcore", "d_early",
                 [elpg1 EXCEPT !.CLAMP_EN = 1], "clamp_set")
    /\ UNCHANGED <<nRel, nReap>>

\* value |= AUX_MUX_LP0_VCORE_DOWN
padctl_disable_vcore(t) ==
    /\ ElpgWrite(t, "d_vcore", "d_early",
                 [elpg1 EXCEPT !.VCORE_DOWN = 1], "vcore_set")
    /\ UNCHANGED <<nRel, nReap>>

\* value |= AUX_MUX_LP0_CLAMP_EN_EARLY
padctl_disable_early(t) ==
    /\ ElpgWrite(t, "d_early", "d_clamp",
                 [elpg1 EXCEPT !.CLAMP_EN_EARLY = 1], "early_set")
    /\ UNCHANGED <<nRel, nReap>>

\* value |= AUX_MUX_LP0_CLAMP_EN
padctl_disable_clamp(t) ==
    /\ ElpgWrite(t, "d_clamp", "d_out",
                 [elpg1 EXCEPT !.CLAMP_EN = 1], "clamp_set")
    /\ nReap' = nReap + 1
    /\ UNCHANGED nRel

\* out: mutex_unlock(&padctl->lock); return 0;
padctl_disable_out(t) ==
    /\ pc[t] = "d_out"
    /\ lock' = NoThread
    /\ ret' = [ret EXCEPT ![t] = 0]
    /\ Goto(t, "ret")
    /\ UNCHANGED <<usb3Vars, otgVars, cfgVars, enable, tmp, err, uret, cur, hwVars, logVars, trace,
                   callVars, cntVars>>

\* the phy init / exit wrapper hands the result to its caller; the locals and
\* the per-call log of the thread are forgotten
PhyReturn(t) ==
    /\ pc[t] = "ret"
    /\ Goto(t, "idle")
    /\ ret' = [ret EXCEPT ![t] = 0]
    /\ tmp' = [tmp EXCEPT ![t] = 0]
    /\ dmesg' = [dmesg EXCEPT ![t] = {}]
    /\ sawTmo' = [sawTmo EXCEPT ![t] = FALSE]
    /\ op' = [op EXCEPT ![t] = "none"]
    /\ UNCHANGED <<usb3Vars, otgVars, cfgVars, lock, enable, err, uret, cur, hwVars, tmo,
                   rstFailed, trace, hist, contended, cntVars>>

\* ------------------------------------------------------------ specification
Next ==
    \E t \in Threads :
        \/ tegra210_pcie_phy_init(t)
        \/ tegra210_sata_phy_init(t)
        \/ tegra210_pcie_phy_exit(t)
        \/ tegra210_sata_phy_exit(t)
        \/ padctl_enable_lock(t)
        \/ padctl_enable_read(t)
        \/ padctl_enable_incr(t)
        \/ padctl_enable_plle(t)
        \/ padctl_enable_mgmt(t)
        \/ uphy_rst(t)
        \/ pex_uphy_cfg(t)
        \/ uphy_cal_ctrl(t)
        \/ uphy_dco_ctrl(t)
        \/ uphy_pwr_ovrd(t)
        \/ uphy_cal_ovrd(t)
        \/ uphy_rcal_ovrd(t)
        \/ pex_uphy_ctl4(t)
        \/ sata_uphy_ctl4(t)
        \/ uphy_freq(t)
        \/ uphy_iddq(t)
        \/ uphy_sleep(t)
        \/ uphy_refclkbuf(t)
        \/ uphy_cal_en(t)
        \/ uphy_wait_cal_done(t)
        \/ uphy_cal_en_clr(t)
        \/ uphy_wait_cal_clear(t)
        \/ uphy_pll_en(t)
        \/ uphy_wait_lockdet(t)
        \/ uphy_rcal_en(t)
        \/ uphy_wait_rcal_done(t)
        \/ uphy_rcal_en_clr(t)
        \/ uphy_wait_rcal_clear(t)
        \/ uphy_rcal_clk_clr(t)
        \/ uphy_hw_ctl(t)
        \/ uphy_pwr_ovrd_clr(t)
        \/ uphy_cal_ovrd_clr(t)
        \/ uphy_rcal_ovrd_clr(t)
        \/ uphy_hw_seq(t)
        \/ padctl_enable_next(t)
        \/ padctl_enable_plle_hw(t)
        \/ padctl_enable_clamp(t)
        \/ padctl_enable_early(t)
        \/ padctl_enable_vcore(t)
        \/ padctl_enable_out(t)
        \/ padctl_disable_lock(t)
        \/ padctl_disable_check(t)
        \/ padctl_disable_decr(t)
        \/ padctl_disable_vcore(t)
        \/ padctl_disable_early(t)
        \/ padctl_disable_clamp(t)
        \/ padctl_disable_out(t)
        \/ PhyReturn(t)

Spec == Init /\ [][Next]_vars

TypeOK ==
    /\ soc \in Socs
    /\ sata_used_by_xusb \in BOOLEAN
    /\ lock \in Threads \cup {NoThread, Worker}
    /\ enable \in 0..MaxCalls
    /\ \A t \in Threads : ret[t] \in {0, -EIO} /\ uret[t] = 0
    /\ warned \in BOOLEAN
    /\ \A k \in PllKinds : \A f \in DOMAIN pll[k] : pll[k][f] \in 0..310
    /\ Len(hist) <= MaxCalls

\* --------------------------------------------------------------- properties
AllIdle == \A t \in Threads : pc[t] = "idle"

IsPrefix(s, r) == Len(s) <= Len(r) /\ \A i \in 1..Len(s) : s[i] = r[i]

\* the events of the current bring-up that belong to bank k
EventsOf(k) ==
    LET F[i \in 0..Len(trace)] ==
            IF i = 0 THEN <<>>
            ELSE IF trace[i].k = k THEN Append(F[i - 1], trace[i].ev)
                                   ELSE F[i - 1]
    IN  F[Len(trace)]

HasEvent(k, ev) == \E i \in 1..Len(trace) : trace[i].k = k /\ trace[i].ev = ev

\* the calibration steps in the order the sequencer has to take them
StepOrder ==
    <<"pwr_ovrd_set", "cal_ovrd_set", "rcal_ovrd_set", "cal_en_set", "cal_done",
      "cal_en_clr", "cal_clear", "pll_en_set", "lockdet", "rcal_en_set",
      "rcal_done", "rcal_en_clr", "rcal_clear", "rcal_clk_clr", "hw_ctl",
      "pwr_ovrd_clr", "cal_ovrd_clr", "rcal_ovrd_clr", "hw_seq">>

StepNames == {StepOrder[i] : i \in 1..Len(StepOrder)}

\* the steps of StepOrder taken so far on bank k in the current bring-up
StepsOf(k) ==
    LET e == EventsOf(k)
        F[i \in 0..Len(e)] ==
            IF i = 0 THEN <<>>
            ELSE IF e[i] \in StepNames THEN Append(F[i - 1], e[i]) ELSE F[i - 1]
    IN  F[Len(e)]

\* C1: over any call sequence without a disable at count zero, the calibration
\* sequencer runs and the top-level clamps are released once per 0->1
\* transition of padctl->enable and the clamps are re-applied once per 1->0
\* transition; enable, enable, disable, disable ends at count 0 after one
\* calibration and one release / re-apply pair.
C1_OncePerTransition ==
    (AllIdle /\ ~warned) =>
        /\ nCal["P0"] = n01
        /\ nRel = n01
        /\ nReap = n10
        /\ (hist = <<"enable", "enable", "disable", "disable">> =>
                enable = 0 /\ nCal["P0"] = 1 /\ nRel = 1 /\ nReap = 1)

\* C2: padctl->enable never goes below zero; a disable that finds the count at
\* zero is turned away: the count stays 0 and no top-level clamp bit is written
\* by that call.
C2_DisableAtZeroRejected ==
    /\ [](/\ enable >= 0
          /\ \A t \in Threads :
                (pc[t] = "d_out" /\ WarnMsg \in dmesg[t]) => enable = 0)
    /\ [][\A t \in Threads :
            /\ (pc[t] = "d_check" /\ enable = 0 /\ pc'[t] # pc[t]) =>
                  (pc'[t] = "d_out" /\ WarnMsg \in dmesg'[t])
            /\ (op[t] = "disable" /\ WarnMsg \in dmesg[t] /\ pc'[t] # pc[t]) =>
                  (enable' = enable /\ elpg1' = elpg1)]_vars

C2_Witness ==
    \E t \in Threads :
        /\ pc[t] = "ret" /\ op[t] = "disable" /\ WarnMsg \in dmesg[t]
        /\ enable = 0 /\ lock = NoThread

\* the only calls that have got the lock so far are two lane inits, one of
\* them issued while the other caller held the lock
TwoInits == hist = <<"enable", "enable">> /\ contended

C4_FixedStepOrder ==
    /\ \A k \in PllKinds : IsPrefix(StepsOf(k), StepOrder)
    /\ \A t \in Threads : pc[t] = "u_ret" => StepsOf(cur[t]) = StepOrder

C4_Witness ==
    \E t \in Threads :
        /\ pc[t] = "u_ret" /\ cur[t] = "S0" /\ tmo[t] = "lockdet"
        /\ StepsOf("P0") = StepOrder /\ StepsOf("S0") = StepOrder

\* C5: a poll that runs out of time is recorded, yet every later step through
\* the hardware handoff and the clearing of the overrides is taken and neither
\* the sequencer nor tegra210_xusb_padctl_enable reports a failure.
C5_TimeoutFallsThrough ==
    \A t \in Threads :
        /\ (pc[t] = "u_ret" /\ tmo[t] # "none") =>
              /\ err[t] = -ETIMEDOUT
              /\ TimeoutMsg(cur[t]) \in dmesg[t]
              /\ uret[t] = 0
              /\ StepsOf(cur[t]) = StepOrder
              /\ pll[cur[t]].PWR_OVRD = 0
              /\ pll[cur[t]].CAL_OVRD = 0
              /\ pll[cur[t]].RCAL_OVRD = 0
              /\ cur[t] \in clk.hw_ctl /\ cur[t] \in clk.hw_seq
        /\ (pc[t] = "ret" /\ sawTmo[t]) => (ret[t] = 0 /\ lock # t)

C5_Witness ==
    \E t \in Threads :
        /\ pc[t] = "ret" /\ sawTmo[t] /\ ret[t] = 0 /\ op[t] = "enable"
        /\ elpg1 = [CLAMP_EN |-> 0, CLAMP_EN_EARLY |-> 0, VCORE_DOWN |-> 0]

\* C6: when the release of the PLL's reset line fails the sequence stops there:
\* nothing is written after the failed release and the sequencer hands the
\* error code back.
C6_ResetFailureAborts ==
    \A t \in Threads :
        rstFailed[t] =>
            /\ trace[Len(trace)] = [t |-> t, k |-> cur[t], ev |-> "rst"]
            /\ (pc[t] = "u_ret" => uret[t] < 0)

\* C7: when enabling PLLE or the UPHY management clock fails on the 0->1 path,
\* tegra210_xusb_padctl_enable returns the error and padctl->enable is back at
\* the value it had before the call.
C7_ClockFailureKeepsCount ==
    \A t \in Threads :
        (pc[t] = "ret" /\ op[t] = "enable" /\ ret[t] < 0) =>
            (enable = tmp[t] /\ enable = 0)

ElpgReleased == [CLAMP_EN |-> 0, CLAMP_EN_EARLY |-> 0, VCORE_DOWN |-> 0]

ElpgClamped == [CLAMP_EN |-> 1, CLAMP_EN_EARLY |-> 1, VCORE_DOWN |-> 1]

\* every PLL sequencer of this SoC has run to its hardware handoff in the
\* current bring-up and none is running
SequencersDone ==
    /\ HasEvent("P0", "hw_seq")
    /\ (t210b01_compatible = 0 => HasEvent("S0", "hw_seq"))
    /\ \A t \in Threads : cur[t] = "none"

\* C8: the top-level clamps are released only after the PLL sequencers have
\* finished, clamp first, then early clamp, then core rail down: the early
\* clamp is never clear while the clamp is set, the core rail bit never clear
\* while the early clamp is set.
C8_ClampReleaseOrder ==
    /\ [](/\ (elpg1.CLAMP_EN_EARLY = 0 => elpg1.CLAMP_EN = 0)
          /\ (elpg1.VCORE_DOWN = 0 => elpg1.CLAMP_EN_EARLY = 0))
    /\ [][/\ (elpg1.CLAMP_EN = 1 /\ elpg1'.CLAMP_EN = 0) =>
                (SequencersDone /\ elpg1 = ElpgClamped)
          /\ (elpg1.CLAMP_EN_EARLY = 1 /\ elpg1'.CLAMP_EN_EARLY = 0) =>
                (elpg1.CLAMP_EN = 0 /\ elpg1.VCORE_DOWN = 1)
          /\ (elpg1.VCORE_DOWN = 1 /\ elpg1'.VCORE_DOWN = 0) =>
                (elpg1.CLAMP_EN = 0 /\ elpg1.CLAMP_EN_EARLY = 0)]_vars

C8_Witness ==
    \E t \in Threads :
        /\ pc[t] = "e_out" /\ tmp[t] = 0 /\ soc = "tegra210"
        /\ elpg1 = ElpgReleased /\ SequencersDone
        /\ trace[Len(trace)].ev = "vcore_clr"

\* the last n events of the trace
LastEvents(n) ==
    IF Len(trace) < n THEN <<>>
    ELSE [i \in 1..n |-> trace[Len(trace) - n + i].ev]

\* C9: the disable that takes the count to zero sets core rail down, then the
\* early clamp, then the clamp, and no disable writes a PLL control register
\* or runs the calibration sequence.
C9_DisableReappliesClamps ==
    /\ [](\A t \in Threads :
            (op[t] = "disable" /\ pc[t] = "d_out" /\ tmp[t] = 1) =>
                /\ elpg1 = ElpgClamped
                /\ LastEvents(3) = <<"vcore_set", "early_set", "clamp_set">>)
    /\ [][\A t \in Threads :
            (op[t] = "disable" /\ pc'[t] # pc[t]) =>
                /\ pll' = pll /\ ctl10' = ctl10 /\ clk' = clk /\ nCal' = nCal
                /\ (elpg1'.CLAMP_EN_EARLY # elpg1.CLAMP_EN_EARLY) =>
                      (elpg1.VCORE_DOWN = 1 /\ elpg1.CLAMP_EN = 0)
                /\ (elpg1'.CLAMP_EN # elpg1.CLAMP_EN) =>
                      (elpg1.VCORE_DOWN = 1 /\ elpg1.CLAMP_EN_EARLY = 1)]_vars

C9_Witness ==
    \E t \in Threads :
        /\ op[t] = "disable" /\ pc[t] = "d_out" /\ tmp[t] = 1
        /\ enable = 0 /\ nReap = 1 /\ elpg1 = ElpgClamped
        /\ pll["P0"].ENABLE = 1

\* C10: every call that takes the count from 0 to 1 enables PLLE first, then
\* calibrates the PCIe PLL on either SoC and the SATA PLL on tegra210 only.
C10_BringUpOrder ==
    \A t \in Threads :
        (op[t] = "enable" /\ tmp[t] = 0 /\ lock = t /\ pc[t] \in {"e_out", "ret"}) =>
            /\ Len(trace) > 0
            /\ trace[1] = [t |-> t, k |-> "TOP", ev |-> "plle_en"]
            /\ StepsOf("P0") = StepOrder
            /\ (StepsOf("S0") = StepOrder) = (soc = "tegra210")
            /\ (soc = "tegra210b01" => EventsOf("S0") = <<>>)

\* ======================================================= OTG role arbitration
\* everything but padctl->lock, the callers' pc and their return value
padVars == <<cfgVars, enable, tmp, err, uret, cur, hwVars, logVars, trace,
             callVars, cntVars, laneVars>>

\* bus power of the OTG port is switched on / off in this step
VbusSwitchedOn == (supply = "off" /\ supply' = "on") \/ (~vbus_en /\ vbus_en')
VbusSwitchedOff == (supply = "on" /\ supply' = "off") \/ (vbus_en /\ ~vbus_en')

\* outcomes of regulator_enable / regulator_disable and of
\* tegra_xusb_select_vbus_en_state
RegErrs == {0, -EIO}

\* a caller enters tegra210_xusb_padctl_vbus_override(padctl, b) and reads the
\* register
vbus_override_read(t) ==
    /\ pc[t] = "idle"
    /\ nOvr < MaxOverrides
    /\ nOvr' = nOvr + 1
    /\ \E b \in BOOLEAN : set' = [set EXCEPT ![t] = b]
    /\ reg' = [reg EXCEPT ![t] = vbus_id]
    /\ Goto(t, "vo_write")
    /\ UNCHANGED <<runVars, usb3Vars, padVars, lock, ret, otgCfg, vbus_id, otg_vbus_on,
                   supply, vbus_en, work, wpc, wreg, rc>>

\* vbus_override that leaves the ID override as it found it
VbusOverrideValue_keeps_id(b, v) ==
    [v EXCEPT !.VBUS_ON = IF b THEN 1 ELSE 0]

\* the value vbus_override computes from the register value v it read
VbusOverrideValue(b, v) ==
    IF b THEN [v EXCEPT !.VBUS_ON = 1, !.ID = ID_OVERRIDE_FLOATING]
         ELSE [v EXCEPT !.VBUS_ON = 0]

\* padctl_writel(padctl, reg, XUSB_PADCTL_USB2_VBUS_ID) of vbus_override
vbus_override_write(t) ==
    /\ pc[t] = "vo_write"
    /\ vbus_id' = VbusOverrideValue(set[t], reg[t])
    /\ reg' = [reg EXCEPT ![t] = vbus_id']
    /\ Goto(t, "o_sched")
    /\ nRun' = 0
    /\ nSw' = 0
    /\ UNCHANGED <<usb3Vars, padVars, lock, ret, otgCfg, otg_vbus_on, supply,
                   vbus_en, work, wpc, wreg, rc, set, nOvr>>

\* a caller enters tegra210_xusb_padctl_id_override(padctl, b) and reads the
\* register
id_override_read(t) ==
    /\ pc[t] = "idle"
    /\ nOvr < MaxOverrides
    /\ nOvr' = nOvr + 1
    /\ \E b \in BOOLEAN :
          /\ set' = [set EXCEPT ![t] = b]
          /\ Goto(t, IF b /\ vbus_id.VBUS_ON = 1 THEN "io_clear" ELSE "io_write")
    /\ reg' = [reg EXCEPT ![t] = vbus_id]
    /\ UNCHANGED <<runVars, usb3Vars, padVars, lock, ret, otgCfg, vbus_id, otg_vbus_on,
                   supply, vbus_en, work, wpc, wreg, rc>>

\* id_override(true) found VBUS_ON set: it writes the register with the bit
\* cleared
id_override_clear(t) ==
    /\ pc[t] = "io_clear"
    /\ vbus_id' = [reg[t] EXCEPT !.VBUS_ON = 0]
    /\ reg' = [reg EXCEPT ![t] = vbus_id']
    /\ Goto(t, "io_reread")
    /\ nRun' = 0
    /\ nSw' = 0
    /\ UNCHANGED <<usb3Vars, padVars, lock, ret, otgCfg, otg_vbus_on, supply,
                   vbus_en, work, wpc, wreg, rc, set, nOvr>>

\* ... and reads it again after usleep_range(1000, 2000)
id_override_reread(t) ==
    /\ pc[t] = "io_reread"
    /\ reg' = [reg EXCEPT ![t] = vbus_id]
    /\ Goto(t, "io_write")
    /\ UNCHANGED <<runVars, usb3Vars, padVars, lock, ret, otgCfg, vbus_id, otg_vbus_on,
                   supply, vbus_en, work, wpc, wreg, rc, set, nOvr>>

\* the value id_override computes from the register value v it read last
IdOverrideValue(b, v) ==
    [v EXCEPT !.ID = IF b THEN ID_OVERRIDE_GROUNDED ELSE ID_OVERRIDE_FLOATING]

\* the final padctl_writel of id_override
id_override_write(t) ==
    /\ pc[t] = "io_write"
    /\ vbus_id' = IdOverrideValue(set[t], reg[t])
    /\ reg' = [reg EXCEPT ![t] = vbus_id']
    /\ Goto(t, "o_sched")
    /\ nRun' = 0
    /\ nSw' = 0
    /\ UNCHANGED <<usb3Vars, padVars, lock, ret, otgCfg, otg_vbus_on, supply,
                   vbus_en, work, wpc, wreg, rc, set, nOvr>>

\* schedule_work(&padctl->otg_vbus_work); return 0
override_schedule(t) ==
    /\ pc[t] = "o_sched"
    /\ work' = TRUE
    /\ ret' = [ret EXCEPT ![t] = 0]
    /\ Goto(t, "idle")
    /\ UNCHANGED <<runVars, usb3Vars, padVars, lock, otgCfg, vbus_id, otg_vbus_on, supply,
                   vbus_en, wpc, wreg, rc, reg, set, nOvr>>

\* the work queue starts the pending work item; the item is never run twice at
\* the same time
otg_vbus_work(w) ==
    /\ w = Worker
    /\ work
    /\ wpc = "idle"
    /\ work' = FALSE
    /\ wpc' = "h_read"
    /\ UNCHANGED <<runVars, usb3Vars, padVars, lock, pc, ret, otgCfg, vbus_id, otg_vbus_on,
                   supply, vbus_en, wreg, rc, reg, set, nOvr>>

\* a handler that powers the bus on whenever the ID is grounded
otg_vbus_handle_read_level(w) ==
    /\ w = Worker
    /\ wpc = "h_read"
    /\ wreg' = vbus_id
    /\ wpc' = IF vbus_id.ID = ID_OVERRIDE_GROUNDED
                 THEN "on_check"
                 ELSE IF vbus_id.ID = ID_OVERRIDE_FLOATING
                         THEN (IF otg_vbus_on THEN "off_check" ELSE "idle")
                         ELSE "idle"
    /\ nRun' = nRun + 1
    /\ UNCHANGED <<nSw, usb3Vars, padVars, lock, pc, ret, otgCfg, vbus_id, otg_vbus_on,
                   supply, vbus_en, work, rc, reg, set, nOvr>>

\* tegra210_xusb_padctl_otg_vbus_handle reads the register and picks the role
otg_vbus_handle_read(w) ==
    /\ w = Worker
    /\ wpc = "h_read"
    /\ wreg' = vbus_id
    /\ wpc' = IF vbus_id.ID = ID_OVERRIDE_GROUNDED
                 THEN (IF ~otg_vbus_on THEN "on_check" ELSE "idle")
                 ELSE IF vbus_id.ID = ID_OVERRIDE_FLOATING
                         THEN (IF otg_vbus_on THEN "off_check" ELSE "idle")
                         ELSE "idle"
    /\ nRun' = nRun + 1
    /\ UNCHANGED <<nSw, usb3Vars, padVars, lock, pc, ret, otgCfg, vbus_id, otg_vbus_on,
                   supply, vbus_en, work, rc, reg, set, nOvr>>

\* tegra210_xusb_padctl_vbus_power_on up to mutex_lock: the tests of the port
\* and of its supply, made with the lock not held
vbus_power_on_check(w) ==
    /\ w = Worker
    /\ wpc = "on_check"
    /\ IF supply = "none"
          THEN rc' = -ENODEV /\ wpc' = "on_ret"
          ELSE rc' = 0 /\ wpc' = "on_lock"
    /\ UNCHANGED <<runVars, usb3Vars, padVars, lock, pc, ret, otgCfg, vbus_id, otg_vbus_on,
                   supply, vbus_en, work, wreg, reg, set, nOvr>>

vbus_power_on_lock(w) ==
    /\ w = Worker
    /\ wpc = "on_lock"
    /\ LockFree
    /\ lock' = w
    /\ wpc' = "on_body"
    /\ UNCHANGED <<runVars, usb3Vars, padVars, pc, ret, otgCfg, vbus_id, otg_vbus_on,
                   supply, vbus_en, work, wreg, rc, reg, set, nOvr>>

\* the body of vbus_power_on under the lock: the VBUS_EN pin state where the
\* port has an over-current pin, else the regulator unless it is enabled
vbus_power_on_body(w) ==
    /\ w = Worker
    /\ wpc = "on_body"
    /\ lock = w
    /\ IF oc_pinctrl
          THEN /\ \E e \in RegErrs : rc' = e /\ vbus_en' = (IF e = 0 THEN TRUE ELSE vbus_en)
               /\ UNCHANGED supply
          ELSE /\ IF supply = "off"
                     THEN \E e \in RegErrs :
                             rc' = e /\ supply' = (IF e = 0 THEN "on" ELSE "off")
                     ELSE UNCHANGED <<rc, supply>>
               /\ UNCHANGED vbus_en
    /\ wpc' = "on_unlock"
    /\ nSw' = (IF VbusSwitchedOn /\ nRun > 0 THEN nSw + 1 ELSE nSw)
    /\ UNCHANGED <<nRun, usb3Vars, padVars, lock, pc, ret, otgCfg, vbus_id, otg_vbus_on,
                   work, wreg, reg, set, nOvr>>

vbus_power_on_unlock(w) ==
    /\ w = Worker
    /\ wpc = "on_unlock"
    /\ lock' = NoThread
    /\ wpc' = "on_ret"
    /\ UNCHANGED <<runVars, usb3Vars, padVars, pc, ret, otgCfg, vbus_id, otg_vbus_on,
                   supply, vbus_en, work, wreg, rc, reg, set, nOvr>>

\* back in the handler: if (!err) padctl->otg_vbus_on = true
otg_vbus_handle_on(w) ==
    /\ w = Worker
    /\ wpc = "on_ret"
    /\ otg_vbus_on' = (IF rc = 0 THEN TRUE ELSE otg_vbus_on)
    /\ wpc' = "idle"
    /\ UNCHANGED <<runVars, usb3Vars, padVars, lock, pc, ret, otgCfg, vbus_id, supply,
                   vbus_en, work, wreg, rc, reg, set, nOvr>>

\* a vbus_power_off that reports success when bus power is pinned on
vbus_power_off_check_silent(w) ==
    /\ w = Worker
    /\ wpc = "off_check"
    /\ IF otg_vbus_alwayson
          THEN rc' = 0 /\ wpc' = "off_ret"
          ELSE IF supply = "none"
                  THEN rc' = -ENODEV /\ wpc' = "off_ret"
                  ELSE rc' = 0 /\ wpc' = "off_lock"
    /\ UNCHANGED <<runVars, usb3Vars, padVars, lock, pc, ret, otgCfg, vbus_id, otg_vbus_on,
                   supply, vbus_en, work, wreg, reg, set, nOvr>>

\* tegra210_xusb_padctl_vbus_power_off up to mutex_lock
vbus_power_off_check(w) ==
    /\ w = Worker
    /\ wpc = "off_check"
    /\ IF otg_vbus_alwayson
          THEN rc' = -EINVAL /\ wpc' = "off_ret"
          ELSE IF supply = "none"
                  THEN rc' = -ENODEV /\ wpc' = "off_ret"
                  ELSE rc' = 0 /\ wpc' = "off_lock"
    /\ UNCHANGED <<runVars, usb3Vars, padVars, lock, pc, ret, otgCfg, vbus_id, otg_vbus_on,
                   supply, vbus_en, work, wreg, reg, set, nOvr>>

vbus_power_off_lock(w) ==
    /\ w = Worker
    /\ wpc = "off_lock"
    /\ LockFree
    /\ lock' = w
    /\ wpc' = "off_body"
    /\ UNCHANGED <<runVars, usb3Vars, padVars, pc, ret, otgCfg, vbus_id, otg_vbus_on,
                   supply, vbus_en, work, wreg, rc, reg, set, nOvr>>

vbus_power_off_body(w) ==
    /\ w = Worker
    /\ wpc = "off_body"
    /\ lock = w
    /\ IF oc_pinctrl
          THEN /\ \E e \in RegErrs : rc' = e /\ vbus_en' = (IF e = 0 THEN FALSE ELSE vbus_en)
               /\ UNCHANGED supply
          ELSE /\ IF supply = "on"
                     THEN \E e \in RegErrs :
                             rc' = e /\ supply' = (IF e = 0 THEN "off" ELSE "on")
                     ELSE UNCHANGED <<rc, supply>>
               /\ UNCHANGED vbus_en
    /\ wpc' = "off_unlock"
    /\ nSw' = (IF VbusSwitchedOff /\ nRun > 0 THEN nSw + 1 ELSE nSw)
    /\ UNCHANGED <<nRun, usb3Vars, padVars, lock, pc, ret, otgCfg, vbus_id, otg_vbus_on,
                   work, wreg, reg, set, nOvr>>

vbus_power_off_unlock(w) ==
    /\ w = Worker
    /\ wpc = "off_unlock"
    /\ lock' = NoThread
    /\ wpc' = "off_ret"
    /\ UNCHANGED <<runVars, usb3Vars, padVars, pc, ret, otgCfg, vbus_id, otg_vbus_on,
                   supply, vbus_en, work, wreg, rc, reg, set, nOvr>>

\* back in the handler: if (!err) padctl->otg_vbus_on = false
otg_vbus_handle_off(w) ==
    /\ w = Worker
    /\ wpc = "off_ret"
    /\ otg_vbus_on' = (IF rc = 0 THEN FALSE ELSE otg_vbus_on)
    /\ wpc' = "idle"
    /\ UNCHANGED <<runVars, usb3Vars, padVars, lock, pc, ret, otgCfg, vbus_id, supply,
                   vbus_en, work, wreg, rc, reg, set, nOvr>>

\* the OTG port as the device tree may describe it
InitOtg ==
    /\ InitPadctl
    /\ soc = "tegra210"
    /\ sata_used_by_xusb = FALSE
    /\ InitUsb3Regs
    /\ InitOtgState
    /\ InitLaneState
    /\ InitHsicRegs
    /\ InitPadDefaults
    /\ wake_w1c = FALSE
    /\ bias_pad_ctl1 = 0
    /\ fuse = [rpd_ctrl |-> 0, hs_term_range_adj |-> 0]
    /\ usb3_port = [p \in SsPorts |-> p]
    /\ usb3_internal = [p \in SsPorts |-> FALSE]
    /\ xusb_lanes = {}
    /\ otg_vbus_alwayson \in BOOLEAN
    /\ oc_pinctrl \in BOOLEAN
    /\ supply \in {"none", "off"}

NextOtg ==
    \/ \E t \in Threads :
          \/ vbus_override_read(t)
          \/ vbus_override_write(t)
          \/ id_override_read(t)
          \/ id_override_clear(t)
          \/ id_override_reread(t)
          \/ id_override_write(t)
          \/ override_schedule(t)
    \/ \E w \in {Worker} :
          \/ otg_vbus_work(w)
          \/ otg_vbus_handle_read(w)
          \/ vbus_power_on_check(w)
          \/ vbus_power_on_lock(w)
          \/ vbus_power_on_body(w)
          \/ vbus_power_on_unlock(w)
          \/ otg_vbus_handle_on(w)
          \/ vbus_power_off_check(w)
          \/ vbus_power_off_lock(w)
          \/ vbus_power_off_body(w)
          \/ vbus_power_off_unlock(w)
          \/ otg_vbus_handle_off(w)

SpecOtg == InitOtg /\ [][NextOtg]_vars

TypeOKOtg ==
    /\ vbus_id \in [VBUS_ON : {0, 1}, ID : {ID_OVERRIDE_GROUNDED, ID_OVERRIDE_FLOATING}]
    /\ otg_vbus_on \in BOOLEAN
    /\ supply \in {"none", "off", "on"}
    /\ vbus_en \in BOOLEAN
    /\ work \in BOOLEAN
    /\ lock \in {NoThread, Worker}
    /\ nOvr \in 0 .. MaxOverrides

\* the step is one of thread t / of the work-queue thread
StepOf(t) == pc'[t] # pc[t]
StepOfWorker == wpc' # wpc

\* C11: every mutation of a pad-controller register, of padctl->enable and of
\* padctl->otg_vbus_on is made by a thread that holds padctl->lock, and every
\* write of the VBUS/ID override register stores the caller's change applied to
\* the value the register has at that moment, so that no update is lost.
C11_MutationsUnderLock ==
    [][/\ \A t \in Threads :
             /\ (StepOf(t) /\ (vbus_id' # vbus_id \/ enable' # enable)) => lock = t
             /\ (StepOf(t) /\ pc[t] = "vo_write") =>
                    vbus_id' = VbusOverrideValue(set[t], vbus_id)
             /\ (StepOf(t) /\ pc[t] = "io_write") =>
                    vbus_id' = IdOverrideValue(set[t], vbus_id)
       /\ (StepOfWorker /\ otg_vbus_on' # otg_vbus_on) => lock = Worker]_vars

\* ===================================================== port <-> lane mapping
\* a table that lists lane pcie-0 under port 2 and under port 3
usb3_map_shared_lane ==
    << [port |-> 0, type |-> "pcie", index |-> 6],
       [port |-> 1, type |-> "pcie", index |-> 5],
       [port |-> 2, type |-> "pcie", index |-> 0],
       [port |-> 2, type |-> "pcie", index |-> 3],
       [port |-> 3, type |-> "pcie", index |-> 4],
       [port |-> 3, type |-> "pcie", index |-> 0] >>

\* the lane map tables, without their terminating { 0, NULL, 0 } entry
tegra210_usb3_map ==
    << [port |-> 0, type |-> "pcie", index |-> 6],
       [port |-> 1, type |-> "pcie", index |-> 5],
       [port |-> 2, type |-> "pcie", index |-> 0],
       [port |-> 2, type |-> "pcie", index |-> 3],
       [port |-> 3, type |-> "pcie", index |-> 4],
       [port |-> 3, type |-> "sata", index |-> 0] >>

tegra210b01_usb3_map ==
    << [port |-> 0, type |-> "pcie", index |-> 5],
       [port |-> 1, type |-> "pcie", index |-> 4],
       [port |-> 2, type |-> "pcie", index |-> 1] >>

\* the table of the running SoC
usb3_map == IF t210b01_compatible = 1 THEN tegra210b01_usb3_map ELSE tegra210_usb3_map

\* the lanes of the UPHY pads of the running SoC
Lanes ==
    IF t210b01_compatible = 1
       THEN [type : {"pcie"}, index : 0 .. 5]
       ELSE [type : {"pcie"}, index : 0 .. 6] \cup [type : {"sata"}, index : {0}]

LaneOf(e) == [type |-> e.type, index |-> e.index]

\* tegra_xusb_port_find_lane(port, map, "xusb"): linear scan from entry i, the
\* first entry of the port whose lane exists and carries the function wins
RECURSIVE tegra_xusb_port_find_lane(_, _, _)
tegra_xusb_port_find_lane(p, map, i) ==
    IF i > Len(map) THEN NoLane
    ELSE IF map[i].port = p /\ LaneOf(map[i]) \in Lanes /\ LaneOf(map[i]) \in xusb_lanes
            THEN LaneOf(map[i])
            ELSE tegra_xusb_port_find_lane(p, map, i + 1)

\* a reverse scan that compares the lane index only
RECURSIVE find_port_index_anypad(_, _, _)
find_port_index_anypad(l, map, i) ==
    IF i > Len(map) THEN NoPort
    ELSE IF map[i].index = l.index
            THEN map[i].port
            ELSE find_port_index_anypad(l, map, i + 1)

\* the for loop of tegra210_usb3_lane_find_port_index, from entry i
RECURSIVE tegra210_usb3_lane_find_port_index(_, _, _)
tegra210_usb3_lane_find_port_index(l, map, i) ==
    IF i > Len(map) THEN NoPort
    ELSE IF map[i].index = l.index /\ map[i].type = l.type
            THEN map[i].port
            ELSE tegra210_usb3_lane_find_port_index(l, map, i + 1)

tegra210_usb3_lane_map(l) ==
    IF t210b01_compatible = 1
       THEN tegra210_usb3_lane_find_port_index(l, tegra210b01_usb3_map, 1)
       ELSE tegra210_usb3_lane_find_port_index(l, tegra210_usb3_map, 1)

\* state shared with the other parts of the driver, which the lookups leave alone
mapFrame == <<padVars, lock, ret, otgVars, usb3Cfg, usb3Regs, step, nPortOps>>

\* tegra210_usb3_port_map(port): the forward lookup for port p
usb3_port_map(t) ==
    /\ pc[t] = "idle"
    /\ \E p \in SsPorts :
          /\ port' = [port EXCEPT ![t] = p]
          /\ lane' = [lane EXCEPT ![t] =
                         IF t210b01_compatible = 1
                            THEN tegra_xusb_port_find_lane(p, tegra210b01_usb3_map, 1)
                            ELSE tegra_xusb_port_find_lane(p, tegra210_usb3_map, 1)]
    /\ Goto(t, "m_fwd")
    /\ UNCHANGED <<mapFrame, index>>

\* the reverse lookup on the lane the forward lookup returned
usb3_lane_map(t) ==
    /\ pc[t] = "m_fwd"
    /\ lane[t] # NoLane
    /\ index' = [index EXCEPT ![t] = tegra210_usb3_lane_map(lane[t])]
    /\ Goto(t, "m_done")
    /\ UNCHANGED <<mapFrame, lane, port>>

\* the caller drops the results
usb3_map_done(t) ==
    /\ pc[t] \in {"m_fwd", "m_done"}
    /\ pc[t] = "m_fwd" => lane[t] = NoLane
    /\ lane' = [lane EXCEPT ![t] = NoLane]
    /\ index' = [index EXCEPT ![t] = 0]
    /\ port' = [port EXCEPT ![t] = 0]
    /\ Goto(t, "idle")
    /\ UNCHANGED mapFrame

\* every SoC revision, every assignment of the "xusb" function to its lanes
InitMap ==
    /\ InitPadctl
    /\ sata_used_by_xusb = FALSE
    /\ InitUsb3Regs
    /\ InitOtgState
    /\ InitLaneState
    /\ InitHsicRegs
    /\ InitPadDefaults
    /\ wake_w1c = FALSE
    /\ bias_pad_ctl1 = 0
    /\ fuse = [rpd_ctrl |-> 0, hs_term_range_adj |-> 0]
    /\ usb3_port = [p \in SsPorts |-> p]
    /\ usb3_internal = [p \in SsPorts |-> FALSE]
    /\ xusb_lanes \in SUBSET Lanes
    /\ otg_vbus_alwayson = FALSE
    /\ oc_pinctrl = FALSE
    /\ supply = "off"

NextMap ==
    \E t \in Threads :
        \/ usb3_port_map(t)
        \/ usb3_lane_map(t)
        \/ usb3_map_done(t)

SpecMap == InitMap /\ [][NextMap]_vars

\* C12: for every USB3 port and each SoC-revision table, if resolve(port) yields
\* a lane, the reverse lane -> port lookup on that lane yields the original
\* port index.
C12_ReverseAgrees ==
    \A t \in Threads :
        pc[t] = "m_done" => (lane[t] # NoLane /\ index[t] = port[t])

\* port 3 of the baseline table resolved to its second lane, sata-0, and back
C12_Witness ==
    \E t \in Threads :
        /\ pc[t] = "m_done"
        /\ soc = "tegra210"
        /\ port[t] = 3
        /\ lane[t] = [type |-> "sata", index |-> 0]
        /\ index[t] = 3

\* the lookups of a thread have produced a lane
Resolved(t) == pc[t] \in {"m_fwd", "m_done"} /\ lane[t] # NoLane

\* C13 as stated: within the table of the running SoC the port <-> lane mapping
\* is a bijection: no two distinct entries carry the same port index and no
\* (pad kind, lane index) pair appears under two port indices.
C13_Bijection ==
    \A i, j \in 1 .. Len(usb3_map) :
        i # j => /\ usb3_map[i].port # usb3_map[j].port
                 /\ LaneOf(usb3_map[i]) # LaneOf(usb3_map[j])

\* C13, amended: within the table of the running SoC no (pad kind, lane index)
\* pair appears twice, so that two ports never resolve to the same lane; the
\* revision-B table moreover carries every port index once.  (The baseline
\* table lists two candidate lanes for port 2 and for port 3.)
C13_LanesUnique ==
    /\ \A i, j \in 1 .. Len(usb3_map) :
          i # j => /\ LaneOf(usb3_map[i]) # LaneOf(usb3_map[j])
                   /\ t210b01_compatible = 1 => usb3_map[i].port # usb3_map[j].port
    /\ \A t, u \in Threads :
          (Resolved(t) /\ Resolved(u) /\ port[t] # port[u]) => lane[t] # lane[u]

\* ports 2 and 3 of the baseline table, each resolved to its second lane
C13_Witness ==
    /\ soc = "tegra210"
    /\ \E t, u \in Threads :
          /\ Resolved(t) /\ port[t] = 2 /\ lane[t] = [type |-> "pcie", index |-> 3]
          /\ Resolved(u) /\ port[u] = 3 /\ lane[u] = [type |-> "sata", index |-> 0]

\* ================================================== SuperSpeed ports and lanes
\* state of the other parts of the driver, which the port and lane operations
\* leave alone (they share XUSB_PADCTL_ELPG_PROGRAM_1 with the AUX_MUX_LP0 bits)
usb3Frame == <<cfgVars, enable, tmp, err, uret, cur, pll, ctl10, clk, logVars, trace,
               callVars, cntVars, otgVars, usb3Cfg>>

\* the per-port bits of XUSB_PADCTL_ELPG_PROGRAM_1
ClampFields == {"CLAMP_EN", "CLAMP_EN_EARLY", "VCORE_DOWN"}

\* XUSB_PADCTL_SS_PORT_MAP_PORTX_MAP(x, v): the field keeps the low three bits
PORTX_MAP(v) == v % 8

\* register writes of port enable with CLAMP_EN cleared before CLAMP_EN_EARLY
enable_steps_clamp_first ==
    << "MAP", "TX_TERM_CTRL", "RX_CTLE", "RX_DFE", "RX_CDR_CTRL", "RX_EQ_CTRL_H",
       "VCORE_DOWN", "CLAMP_EN", "CLAMP_EN_EARLY" >>

\* register writes of port enable with the clamps released first and the port
\* map written last
enable_steps_map_last ==
    << "VCORE_DOWN", "CLAMP_EN_EARLY", "CLAMP_EN",
       "TX_TERM_CTRL", "RX_CTLE", "RX_DFE", "RX_CDR_CTRL", "RX_EQ_CTRL_H", "MAP" >>

\* the register writes of tegra210_usb3_port_enable, in program order
usb3_port_enable_steps ==
    << "MAP", "TX_TERM_CTRL", "RX_CTLE", "RX_DFE", "RX_CDR_CTRL", "RX_EQ_CTRL_H",
       "VCORE_DOWN", "CLAMP_EN_EARLY", "CLAMP_EN" >>

\* register writes of port disable in the reverse of the enable order
disable_steps_reversed == << "CLAMP_EN", "CLAMP_EN_EARLY", "VCORE_DOWN", "MAP" >>

\* the register writes of tegra210_usb3_port_disable, in program order
usb3_port_disable_steps == << "CLAMP_EN_EARLY", "CLAMP_EN", "VCORE_DOWN", "MAP" >>

\* a port map field that takes the index of the port's lane
map_value_lane(p, l, old) ==
    [MAP |-> PORTX_MAP(l.index), INTERNAL |-> IF usb3_internal[p] THEN 1 ELSE 0]

\* the field of port p that tegra210_usb3_port_enable writes to SS_PORT_MAP; l is
\* the port's lane, old the field as read
usb3_port_enable_map_value(p, l, old) ==
    [MAP |-> PORTX_MAP(usb3_port[p]), INTERNAL |-> IF usb3_internal[p] THEN 1 ELSE 0]

\* a port map field left as it is
map_value_kept(old) == old

\* the field that tegra210_usb3_port_disable writes to SS_PORT_MAP
usb3_port_disable_map_value(old) == [old EXCEPT !.MAP = PORTX_MAP(PORTX_MAP_DISABLED)]

\* one read-modify-write of port p by port enable (v = 0) or disable (v = 1):
\* the SS_PORT_MAP field, one ECTL trim or one SSPX_ELPG bit
PortWrite(p, w, v, m) ==
    /\ ss_port_map' = IF w = "MAP" THEN [ss_port_map EXCEPT ![p] = m] ELSE ss_port_map
    /\ ectl' = IF w \in Trims THEN [ectl EXCEPT ![p] = @ \cup {w}] ELSE ectl
    /\ sspx' = IF w \in ClampFields THEN [sspx EXCEPT ![p][w] = v] ELSE sspx

\* the lane a port was mapped to at probe (usb3->base.lane)
LaneOfPort(p) == tegra_xusb_port_find_lane(p, usb3_map, 1)

\* the caller takes padctl->lock and enters tegra210_usb3_port_enable(port) or
\* tegra210_usb3_port_disable(port)
PortCall(t, p, entry) ==
    /\ pc[t] = "idle"
    /\ nPortOps < MaxPortOps
    /\ LaneOfPort(p) # NoLane
    /\ LockFree
    /\ lock' = t
    /\ nPortOps' = nPortOps + 1
    /\ port' = [port EXCEPT ![t] = p]
    /\ index' = [index EXCEPT ![t] = p]
    /\ lane' = [lane EXCEPT ![t] = LaneOfPort(p)]
    /\ step' = [step EXCEPT ![t] = 1]
    /\ Goto(t, entry)
    /\ UNCHANGED <<usb3Frame, usb3Regs, elpg1, ret>>

tegra210_usb3_port_enable(t) == \E p \in SsPorts : PortCall(t, p, "pe_run")

tegra210_usb3_port_disable(t) == \E p \in SsPorts : PortCall(t, p, "pd_run")

\* the next register write of tegra210_usb3_port_enable
usb3_port_enable_step(t) ==
    /\ pc[t] = "pe_run"
    /\ PortWrite(index[t], usb3_port_enable_steps[step[t]], 0,
                 usb3_port_enable_map_value(index[t], lane[t], ss_port_map[index[t]]))
    /\ step' = [step EXCEPT ![t] = @ + 1]
    /\ Goto(t, IF step[t] = Len(usb3_port_enable_steps) THEN "pe_ret" ELSE "pe_run")
    /\ UNCHANGED <<usb3Frame, elpg0, elpg1, lock, ret, index, lane, port, nPortOps>>

\* the next register write of tegra210_usb3_port_disable
usb3_port_disable_step(t) ==
    /\ pc[t] = "pd_run"
    /\ PortWrite(index[t], usb3_port_disable_steps[step[t]], 1,
                 usb3_port_disable_map_value(ss_port_map[index[t]]))
    /\ step' = [step EXCEPT ![t] = @ + 1]
    /\ Goto(t, IF step[t] = Len(usb3_port_disable_steps) THEN "pd_ret" ELSE "pd_run")
    /\ UNCHANGED <<usb3Frame, elpg0, elpg1, lock, ret, index, lane, port, nPortOps>>

\* the number of the ELPG_PROGRAM_0 bit BIT((x) + base) for x = ix: the sum is
\* taken in unsigned int, where UINT_MAX + base wraps to base - 1
WakeBit(base, ix) == IF ix = NoPort THEN base - 1 ELSE base + ix

SS_PORT_WAKE_INTERRUPT_ENABLE(ix) == WakeBit(14, ix)
SS_PORT_WAKEUP_EVENT(ix) == WakeBit(21, ix)

ALL_WAKE_EVENTS == {7, 8, 9, 10, 21, 22, 23, 24, 30}

\* the controller-wide AUX_MUX_LP0 bits seen as one more group of clamp bits
AuxMux == 4

\* the group of SSPX_ELPG_*(ix) = BIT(n + (ix) * 3): that of port ix; for
\* ix = UINT_MAX the shift count exceeds the width of the operand, the shift is
\* undefined and lands on no bit, on the AUX_MUX_LP0 bit or on some port's bit
ClampTargets(ix) == IF ix = NoPort THEN SsPorts \cup {AuxMux, NoPort} ELSE {ix}

\* reg |= SSPX_ELPG_<f>(index) written back to XUSB_PADCTL_ELPG_PROGRAM_1
SetClampBit(g, f) ==
    /\ sspx' = IF g \in SsPorts THEN [sspx EXCEPT ![g][f] = 1] ELSE sspx
    /\ elpg1' = IF g = AuxMux THEN [elpg1 EXCEPT ![f] = 1] ELSE elpg1

\* a caller enters a lane operation of a USB3 phy (a lane of the PCIe pad):
\* index = tegra210_usb3_lane_map(lane)
PhyCall(t, entry) ==
    /\ pc[t] = "idle"
    /\ nPortOps < MaxPortOps
    /\ nPortOps' = nPortOps + 1
    /\ \E l \in {x \in Lanes : x.type = "pcie"} :
          /\ lane' = [lane EXCEPT ![t] = l]
          /\ index' = [index EXCEPT ![t] = tegra210_usb3_lane_map(l)]
    /\ Goto(t, entry)
    /\ UNCHANGED <<usb3Frame, usb3Regs, elpg1, lock, ret, port, step>>

tegra210_usb3_phy_enable_sleepwalk(t) == PhyCall(t, "sw_lock")

tegra210_usb3_phy_enable_wake(t) == PhyCall(t, "wk_lock")

\* mutex_lock(&padctl->lock) of the lane operations
usb3_phy_lock(t) ==
    /\ pc[t] \in {"sw_lock", "wk_lock"}
    /\ LockFree
    /\ lock' = t
    /\ Goto(t, IF pc[t] = "sw_lock" THEN "sw_early" ELSE "wk_event")
    /\ UNCHANGED <<usb3Frame, usb3Regs, elpg1, ret, index, lane, port, step, nPortOps>>

\* enable_sleepwalk sets CLAMP_EN_EARLY(index), then CLAMP_EN(index)
usb3_phy_enable_sleepwalk_write(t) ==
    /\ pc[t] \in {"sw_early", "sw_clamp"}
    /\ \E g \in ClampTargets(index[t]) :
          SetClampBit(g, IF pc[t] = "sw_early" THEN "CLAMP_EN_EARLY" ELSE "CLAMP_EN")
    /\ Goto(t, IF pc[t] = "sw_early" THEN "sw_clamp" ELSE "ph_unlock")
    /\ UNCHANGED <<usb3Frame, ss_port_map, ectl, elpg0, lock, ret, index, lane, port,
                   step, nPortOps>>

\* enable_wake writes ELPG_PROGRAM_0 with the wake-event bits masked out and
\* SS_PORT_WAKEUP_EVENT(index) set, then the same with
\* SS_PORT_WAKE_INTERRUPT_ENABLE(index)
usb3_phy_enable_wake_write(t) ==
    /\ pc[t] \in {"wk_event", "wk_enable"}
    /\ elpg0' = (elpg0 \ ALL_WAKE_EVENTS) \cup
                   {IF pc[t] = "wk_event" THEN SS_PORT_WAKEUP_EVENT(index[t])
                                          ELSE SS_PORT_WAKE_INTERRUPT_ENABLE(index[t])}
    /\ Goto(t, IF pc[t] = "wk_event" THEN "wk_enable" ELSE "ph_unlock")
    /\ UNCHANGED <<usb3Frame, ss_port_map, ectl, sspx, elpg1, lock, ret, index, lane,
                   port, step, nPortOps>>

\* mutex_unlock(&padctl->lock); return 0 -- also the unlock by the caller of
\* port enable / disable
usb3_unlock(t) ==
    /\ pc[t] \in {"ph_unlock", "pe_ret", "pd_ret"}
    /\ lock' = NoThread
    /\ ret' = [ret EXCEPT ![t] = 0]
    /\ Goto(t, "ph_ret")
    /\ UNCHANGED <<usb3Frame, usb3Regs, elpg1, index, lane, port, step, nPortOps>>

\* the caller has the return value
usb3_return(t) ==
    /\ pc[t] = "ph_ret"
    /\ ret' = [ret EXCEPT ![t] = 0]
    /\ index' = [index EXCEPT ![t] = 0]
    /\ lane' = [lane EXCEPT ![t] = NoLane]
    /\ port' = [port EXCEPT ![t] = 0]
    /\ step' = [step EXCEPT ![t] = 1]
    /\ Goto(t, "idle")
    /\ UNCHANGED <<usb3Frame, usb3Regs, elpg1, lock, nPortOps>>

\* USB2 companion ports the device tree may give the SuperSpeed ports
CompanionMaps == {[p \in SsPorts |-> p], [p \in SsPorts |-> (p + 1) % 4]}

\* every lane of the map table carries the "xusb" function
InitUsb3 ==
    /\ InitPadctl
    /\ sata_used_by_xusb = FALSE
    /\ InitUsb3Regs
    /\ InitOtgState
    /\ InitLaneState
    /\ InitHsicRegs
    /\ InitPadDefaults
    /\ wake_w1c = FALSE
    /\ bias_pad_ctl1 = 0
    /\ fuse = [rpd_ctrl |-> 0, hs_term_range_adj |-> 0]
    /\ usb3_port \in CompanionMaps
    /\ usb3_internal = [p \in SsPorts |-> p = 1]
    /\ xusb_lanes = Lanes
    /\ otg_vbus_alwayson = FALSE
    /\ oc_pinctrl = FALSE
    /\ supply = "off"

NextUsb3 ==
    \E t \in Threads :
        \/ tegra210_usb3_port_enable(t)
        \/ tegra210_usb3_port_disable(t)
        \/ usb3_port_enable_step(t)
        \/ usb3_port_disable_step(t)
        \/ tegra210_usb3_phy_enable_sleepwalk(t)
        \/ tegra210_usb3_phy_enable_wake(t)
        \/ usb3_phy_lock(t)
        \/ usb3_phy_enable_sleepwalk_write(t)
        \/ usb3_phy_enable_wake_write(t)
        \/ usb3_unlock(t)
        \/ usb3_return(t)

SpecUsb3 == InitUsb3 /\ [][NextUsb3]_vars

TypeOKUsb3 ==
    /\ ss_port_map \in [SsPorts -> [MAP : 0 .. 7, INTERNAL : {0, 1}]]
    /\ sspx \in [SsPorts -> [CLAMP_EN : {0, 1}, CLAMP_EN_EARLY : {0, 1},
                            VCORE_DOWN : {0, 1}]]
    /\ ectl \in [SsPorts -> SUBSET Trims]
    /\ elpg0 \subseteq 0 .. 31
    /\ index \in [Threads -> SsPorts \cup {NoPort}]
    /\ lock \in Threads \cup {NoThread}
    /\ nPortOps \in 0 .. MaxPortOps

\* thread t is inside tegra210_usb3_port_enable / _disable and makes its next
\* register write in this step
EnableStep(t) == pc[t] = "pe_run" /\ step'[t] = step[t] + 1
DisableStep(t) == pc[t] = "pd_run" /\ step'[t] = step[t] + 1

\* bit f of port p goes from v to the other value in this step
Flips(p, f, v) == sspx[p][f] = v /\ sspx'[p][f] # v

\* thread t is inside a lane operation whose lane has no entry in the map table
MissingLane(t) ==
    /\ pc[t] \in {"sw_lock", "sw_early", "sw_clamp", "wk_lock", "wk_event",
                  "wk_enable", "ph_unlock"}
    /\ index[t] = NoPort

\* C14: when a lane has no entry in the map table of the running SoC, the
\* lane -> port lookup surfaces a configuration error to its caller: the wake or
\* sleepwalk operation returns an error and writes no clamp, wake-event or
\* port-map bit.
C14_MissingLaneRejected ==
    [][\A t \in Threads :
          (MissingLane(t) /\ StepOf(t)) =>
              /\ UNCHANGED <<ss_port_map, sspx, elpg0, elpg1>>
              /\ pc'[t] = "ph_ret" => ret'[t] < 0]_vars

\* the port map field and the trims of port p as port enable leaves them
Programmed(p) ==
    /\ ss_port_map[p].MAP = PORTX_MAP(usb3_port[p])
    /\ ectl[p] = Trims

\* C15: port enable clears the port's clamp bits in the order core-rail-down,
\* early-clamp, clamp (early-clamp is never cleared while core-rail-down is set,
\* clamp never while early-clamp is set), has all three cleared when it returns,
\* and changes no other port's clamp bits nor the controller-wide clamp bits.
C15_PowerOnClampOrder ==
    /\ [](\A t \in Threads :
             pc[t] = "pe_ret" =>
                 sspx[index[t]] = [CLAMP_EN |-> 0, CLAMP_EN_EARLY |-> 0, VCORE_DOWN |-> 0])
    /\ [][\A t \in Threads :
             EnableStep(t) =>
                 /\ Flips(index[t], "CLAMP_EN_EARLY", 1) => sspx[index[t]].VCORE_DOWN = 0
                 /\ Flips(index[t], "CLAMP_EN", 1) => sspx[index[t]].CLAMP_EN_EARLY = 0
                 /\ \A q \in SsPorts \ {index[t]} : sspx'[q] = sspx[q]
                 /\ elpg1' = elpg1]_vars

\* a port enable has released the clamps of its port while another port is
\* still clamped
C15_Witness ==
    \E t \in Threads :
        /\ pc[t] = "pe_ret"
        /\ sspx[index[t]].CLAMP_EN = 0
        /\ \E q \in SsPorts \ {index[t]} : sspx[q].CLAMP_EN = 1

\* C16 as stated: in port enable the trims are programmed only after the port's
\* clamp bit has been cleared, and the port map register is written last, after
\* all trims.
C16_TrimsAfterClamps ==
    [][\A t \in Threads :
          EnableStep(t) =>
              /\ ectl'[index[t]] # ectl[index[t]] => sspx[index[t]].CLAMP_EN = 0
              /\ usb3_port_enable_steps[step[t]] = "MAP" =>
                     (ectl[index[t]] = Trims /\ sspx[index[t]].CLAMP_EN = 0)]_vars

\* C16, amended: port enable writes the port map register first, then the five
\* trims, and clears the clamp bits last: every trim is programmed after the map
\* field was written, and no clamp bit is cleared before the map field and all
\* five trims are programmed.
C16_ClampsAfterTrims ==
    [][\A t \in Threads :
          EnableStep(t) =>
              /\ usb3_port_enable_steps[step[t]] \in Trims =>
                     ss_port_map[index[t]].MAP = PORTX_MAP(usb3_port[index[t]])
              /\ usb3_port_enable_steps[step[t]] \in ClampFields =>
                     Programmed(index[t])
              /\ usb3_port_enable_steps[step[t]] = "MAP" => step[t] = 1]_vars

\* the first enable of a port is about to clear its core-rail-down bit: map
\* field and trims are programmed, the port is still fully clamped
C16_Witness ==
    \E t \in Threads :
        /\ pc[t] = "pe_run"
        /\ usb3_port_enable_steps[step[t]] = "VCORE_DOWN"
        /\ Programmed(index[t])
        /\ sspx[index[t]] = [CLAMP_EN |-> 1, CLAMP_EN_EARLY |-> 1, VCORE_DOWN |-> 1]

C18_PowerOffReverseOrder ==
    [][\A t \in Threads :
          DisableStep(t) =>
              /\ Flips(index[t], "CLAMP_EN_EARLY", 0) => sspx[index[t]].CLAMP_EN = 1
              /\ Flips(index[t], "VCORE_DOWN", 0) => sspx[index[t]].CLAMP_EN_EARLY = 1]_vars

\* C18, amended: port disable asserts the port's clamp bits in the order
\* early-clamp, clamp, core-rail-down (clamp is never set while early-clamp is
\* clear, core-rail-down never while clamp is clear) and has all three set when
\* it returns; this is not the reverse of the power-on order.
C18_PowerOffClampOrder ==
    /\ [](\A t \in Threads :
             pc[t] = "pd_ret" =>
                 sspx[index[t]] = [CLAMP_EN |-> 1, CLAMP_EN_EARLY |-> 1, VCORE_DOWN |-> 1])
    /\ [][\A t \in Threads :
             DisableStep(t) =>
                 /\ Flips(index[t], "CLAMP_EN", 0) => sspx[index[t]].CLAMP_EN_EARLY = 1
                 /\ Flips(index[t], "VCORE_DOWN", 0) =>
                        (sspx[index[t]].CLAMP_EN = 1 /\ sspx[index[t]].CLAMP_EN_EARLY = 1)
                 /\ \A q \in SsPorts \ {index[t]} : sspx'[q] = sspx[q]
                 /\ elpg1' = elpg1]_vars

\* a port disable is half way through a port that was enabled: early-clamp and
\* clamp are set again, core-rail-down is not yet
C18_Witness ==
    \E t \in Threads :
        /\ pc[t] = "pd_run"
        /\ sspx[index[t]] = [CLAMP_EN |-> 1, CLAMP_EN_EARLY |-> 1, VCORE_DOWN |-> 0]

\* C19: after port disable, whatever the state before, the port's field of the
\* port map register holds the unmapped value 7, and the call changes no other
\* port's field.
C19_PowerOffUnmaps ==
    /\ [](\A t \in Threads :
             pc[t] = "pd_ret" => ss_port_map[index[t]].MAP = PORTX_MAP_DISABLED)
    /\ [][\A t \in Threads :
             DisableStep(t) =>
                 \A q \in SsPorts \ {index[t]} : ss_port_map'[q] = ss_port_map[q]]_vars

\* a port that was mapped has been disabled while another port stays mapped
C19_Witness ==
    \E t \in Threads :
        /\ pc[t] = "pd_ret"
        /\ ss_port_map[index[t]].MAP = PORTX_MAP_DISABLED
        /\ ectl[index[t]] = Trims
        /\ \E q \in SsPorts \ {index[t]} : ss_port_map[q].MAP # PORTX_MAP_DISABLED

\* C20: in every interleaving of id_override(true), a following vbus_override
\* call and the runs of the deferred OTG handler they schedule, the bus-power
\* regulator is never switched on at a moment when the ID override field of the
\* VBUS/ID register is floating.
C20_NoVbusWhileFloating ==
    [][VbusSwitchedOn => vbus_id.ID # ID_OVERRIDE_FLOATING]_vars

\* C21: when bus power is configured permanently on, vbus_power_off returns an
\* error without touching the regulator or the VBUS-enable pin state, and the
\* OTG handler leaves otg_vbus_on true.
C21_AlwaysOnRejectsPowerOff ==
    [][otg_vbus_alwayson =>
          /\ ~VbusSwitchedOff
          /\ (wpc = "off_check" /\ StepOfWorker) =>
                 /\ rc' = -EINVAL
                 /\ wpc' = "off_ret"
                 /\ lock' = lock
          /\ otg_vbus_on => otg_vbus_on']_vars

\* the handler has come back from a rejected power-off with bus power still on
C21_Witness ==
    /\ otg_vbus_alwayson
    /\ otg_vbus_on
    /\ wpc = "off_ret"
    /\ rc = -EINVAL
    /\ (supply = "on" \/ vbus_en)

\* C22: the deferred OTG handler acts only on transitions.  With the ID grounded
\* and otg_vbus_on false it calls vbus_power_on and sets otg_vbus_on only if the
\* call returned 0; with the ID floating and otg_vbus_on true it calls
\* vbus_power_off and clears otg_vbus_on only if the call returned 0; in every
\* other case it makes no power call.  Bus power is switched by the handler
\* only, and the handler runs that read the register since its last write by an
\* override call have switched bus power at most once.
C22_HandlerActsOnTransitions ==
    /\ [](nSw <= 1)
    /\ [][/\ (wpc = "h_read" /\ StepOfWorker) =>
                 /\ wpc' = "on_check" <=>
                        (vbus_id.ID = ID_OVERRIDE_GROUNDED /\ ~otg_vbus_on)
                 /\ wpc' = "off_check" <=>
                        (vbus_id.ID = ID_OVERRIDE_FLOATING /\ otg_vbus_on)
                 /\ wpc' \in {"on_check", "off_check", "idle"}
          /\ (~otg_vbus_on /\ otg_vbus_on') => (wpc = "on_ret" /\ rc = 0)
          /\ (otg_vbus_on /\ ~otg_vbus_on') => (wpc = "off_ret" /\ rc = 0)
          /\ (wpc = "on_ret" /\ StepOfWorker) => (otg_vbus_on' = (rc = 0 \/ otg_vbus_on))
          /\ (wpc = "off_ret" /\ StepOfWorker) => (otg_vbus_on' = (rc # 0 /\ otg_vbus_on))
          /\ VbusSwitchedOn => (wpc = "on_body" /\ ~otg_vbus_on)
          /\ VbusSwitchedOff => (wpc = "off_body" /\ otg_vbus_on)
          /\ (supply' # supply \/ vbus_en' # vbus_en) => StepOfWorker]_vars

\* a second handler run has ended with no override write since the first one
\* read the register, and only one of the two switched bus power
C22_Witness ==
    /\ nRun = 2
    /\ nSw = 1
    /\ wpc = "idle"
    /\ ~work
    /\ otg_vbus_on

\* ============================================ lane wake / sleepwalk entry points
\* number of wake events the hardware raises, number of phy_wake /
\* phy_sleepwalk calls, number of USB2 lane power_on / power_off calls
MaxEvents == 1
MaxLaneOps == 2
MaxUsb2Ops == 3

USB2_PORT_WAKE_INTERRUPT_ENABLE(ix) == ix
USB2_PORT_WAKEUP_EVENT(ix) == ix + 7
USB2_HSIC_PORT_WAKE_INTERRUPT_ENABLE(ix) == ix + 28
USB2_HSIC_PORT_WAKEUP_EVENT(ix) == ix + 30

\* the implementations a lane operation is dispatched to
Impls == {"usb3", "utmi", "hsic"}

\* the WAKE_INTERRUPT_ENABLE / WAKEUP_EVENT bit of port ix of kind k
WakeEnableBit(k, ix) ==
    CASE k = "usb3" -> SS_PORT_WAKE_INTERRUPT_ENABLE(ix)
      [] k = "utmi" -> USB2_PORT_WAKE_INTERRUPT_ENABLE(ix)
      [] k = "hsic" -> USB2_HSIC_PORT_WAKE_INTERRUPT_ENABLE(ix)

WakeEventBit(k, ix) ==
    CASE k = "usb3" -> SS_PORT_WAKEUP_EVENT(ix)
      [] k = "utmi" -> USB2_PORT_WAKEUP_EVENT(ix)
      [] k = "hsic" -> USB2_HSIC_PORT_WAKEUP_EVENT(ix)

\* what ELPG_PROGRAM_0 holds after padctl_writel(padctl, v, ...): the value
\* written, or with write-one-to-clear event bits the written value in the other
\* bits, and an event bit set iff it was set and is written as 0
Elpg0Write(v) ==
    IF wake_w1c
       THEN (v \ ALL_WAKE_EVENTS) \cup ((elpg0 \cap ALL_WAKE_EVENTS) \ v)
       ELSE v

\* is_usb3_phy / is_utmi_phy / is_hsic_phy: the phy_ops of the lane's pad; the
\* lanes of the SATA pad carry tegra210_sata_phy_ops, which none of them tests
PhyKind(l) ==
    IF l.type = "pcie" THEN "usb3"
    ELSE IF l.type = "usb2" THEN "utmi"
    ELSE IF l.type = "hsic" THEN "hsic"
    ELSE "none"

\* the phy arguments of the callers: NULL, a USB2 lane, the HSIC lane, the PCIe
\* lane of SuperSpeed port 1 (of port 0 on Tegra210B01), the lane of the SATA
\* pad where there is one
PhyArgs ==
    {NoLane, [type |-> "usb2", index |-> 1], [type |-> "hsic", index |-> 0]}
    \cup {l \in Lanes : l.type = "sata" \/ l.index = 5}

Speeds == {"USB_SPEED_FULL", "USB_SPEED_HIGH"}

\* the wake events the hardware raises: of USB2 ports 0 and 1, of SuperSpeed
\* port 1, of the HSIC port
WakeSources == {USB2_PORT_WAKEUP_EVENT(0), USB2_PORT_WAKEUP_EVENT(1),
                SS_PORT_WAKEUP_EVENT(1), USB2_HSIC_PORT_WAKEUP_EVENT(0)}

\* the variables no step of a wake / sleepwalk call changes
laneCore == <<cfgVars, enable, tmp, err, uret, cur, pll, ctl10, clk, logVars, trace,
              callVars, cntVars, usb3Cfg, ectl, port, step, nPortOps,
              otgCfg, vbus_id, otg_vbus_on, supply, vbus_en, work, wpc, wreg, rc,
              reg, set, nOvr, runVars, wake_w1c, initVars, timeout>>
laneBase == <<laneCore, ss_port_map>>
laneFrame == <<laneBase, tailVars>>

\* entry of tegra210_xusb_padctl_phy_wake / _phy_sleepwalk up to the call of
\* the implementation: if (!phy) return 0; the chain of is_*_phy tests; else
\* return -EINVAL.  args are the values of the argument phy, speeds those of
\* the argument speed, first is the implementation's first position.
LaneCall(t, args, first, speeds) ==
    /\ pc[t] = "idle"
    /\ nLaneOps < MaxLaneOps
    /\ nLaneOps' = nLaneOps + 1
    /\ \E l \in args, e \in BOOLEAN, s \in speeds :
          LET k == IF l = NoLane THEN "none" ELSE PhyKind(l) IN
          /\ lane' = [lane EXCEPT ![t] = l]
          /\ speed' = [speed EXCEPT ![t] = s]
          /\ wen' = [wen EXCEPT ![t] = e]
          /\ impl' = [impl EXCEPT ![t] = k]
          /\ index' = [index EXCEPT ![t] =
                          IF k = "usb3" THEN tegra210_usb3_lane_map(l) ELSE l.index]
          /\ IF k = "none"
                THEN /\ ret' = [ret EXCEPT ![t] = IF l = NoLane THEN 0 ELSE -EINVAL]
                     /\ Goto(t, "ln_ret")
                ELSE /\ UNCHANGED ret
                     /\ Goto(t, first[k][e])
    /\ UNCHANGED <<laneFrame, usb2Vars, sspx, elpg0, elpg1, lock, reg0, nEvt, pmc, utmi_pad_cfg>>

tegra210_xusb_padctl_phy_wake(t) ==
    LaneCall(t, PhyArgs, [k \in Impls |-> [e \in BOOLEAN |-> "wake_lock"]],
             {"USB_SPEED_UNKNOWN"})

\* the implementation's first position in phy_sleepwalk
SleepwalkFirst ==
    [k \in Impls |->
       [e \in BOOLEAN |->
          IF k = "usb3" THEN (IF e THEN "sw_lock" ELSE "swd_lock")
          ELSE IF k = "utmi" THEN "pmc_cfg" ELSE "pmc_call"]]

tegra210_xusb_padctl_phy_sleepwalk(t) == LaneCall(t, PhyArgs, SleepwalkFirst, Speeds)

\* mutex_lock(&padctl->lock) of the wake functions and of
\* tegra210_usb3_phy_disable_sleepwalk
lane_lock(t) ==
    /\ pc[t] \in {"wake_lock", "swd_lock"}
    /\ LockFree
    /\ lock' = t
    /\ Goto(t, IF pc[t] = "wake_lock" THEN "wk_first" ELSE "swd_early")
    /\ UNCHANGED <<laneFrame, usb2Vars, sspx, elpg0, elpg1, ret, index, lane, impl, wen,
                   speed, reg0, nEvt, nLaneOps, pmc, utmi_pad_cfg>>

\* reg &= ~SSPX_ELPG_<f>(index) written back to XUSB_PADCTL_ELPG_PROGRAM_1
ClearClampBit(g, f) ==
    /\ sspx' = IF g \in SsPorts THEN [sspx EXCEPT ![g][f] = 0] ELSE sspx
    /\ elpg1' = IF g = AuxMux THEN [elpg1 EXCEPT ![f] = 0] ELSE elpg1

\* a disable_sleepwalk that releases CLAMP_EN_EARLY only
usb3_phy_disable_sleepwalk_early_only(t) ==
    /\ pc[t] \in {"swd_early", "swd_clamp"}
    /\ IF pc[t] = "swd_early"
          THEN \E g \in ClampTargets(index[t]) : ClearClampBit(g, "CLAMP_EN_EARLY")
          ELSE UNCHANGED <<sspx, elpg1>>
    /\ Goto(t, IF pc[t] = "swd_early" THEN "swd_clamp" ELSE "ph_unlock")
    /\ UNCHANGED <<laneFrame, usb2Vars, elpg0, lock, ret, index, lane, impl, wen, speed,
                   reg0, nEvt, nLaneOps, pmc, utmi_pad_cfg>>

\* disable_sleepwalk clears CLAMP_EN_EARLY(index), then CLAMP_EN(index)
usb3_phy_disable_sleepwalk_write(t) ==
    /\ pc[t] \in {"swd_early", "swd_clamp"}
    /\ \E g \in ClampTargets(index[t]) :
          ClearClampBit(g, IF pc[t] = "swd_early" THEN "CLAMP_EN_EARLY" ELSE "CLAMP_EN")
    /\ Goto(t, IF pc[t] = "swd_early" THEN "swd_clamp" ELSE "ph_unlock")
    /\ UNCHANGED <<laneFrame, usb2Vars, elpg0, lock, ret, index, lane, impl, wen, speed,
                   reg0, nEvt, nLaneOps, pmc, utmi_pad_cfg>>

\* an enable_wake that clears every wake-event bit before it sets the enable bit
enable_wake_value_clear_all(k, ix, first, old) ==
    IF first THEN old \cup ALL_WAKE_EVENTS
             ELSE (old \ ALL_WAKE_EVENTS) \cup {WakeEnableBit(k, ix)}

\* the value tegra210_<k>_phy_enable_wake writes in its first / second write,
\* from the value old it read: reg &= ~ALL_WAKE_EVENTS, then
\* reg |= <k>_WAKEUP_EVENT(index) / reg |= <k>_WAKE_INTERRUPT_ENABLE(index)
enable_wake_value(k, ix, first, old) ==
    (old \ ALL_WAKE_EVENTS) \cup
        {IF first THEN WakeEventBit(k, ix) ELSE WakeEnableBit(k, ix)}

\* the value tegra210_<k>_phy_disable_wake writes: reg &= ~ALL_WAKE_EVENTS, then
\* reg &= ~<k>_WAKE_INTERRUPT_ENABLE(index) (for HSIC,
\* reg &= ~~USB2_HSIC_PORT_WAKE_INTERRUPT_ENABLE(index)) / reg |= <k>_WAKEUP_EVENT(index)
disable_wake_value(k, ix, first, old) ==
    IF first
       THEN IF k = "hsic"
               THEN (old \ ALL_WAKE_EVENTS) \cap {WakeEnableBit(k, ix)}
               ELSE (old \ ALL_WAKE_EVENTS) \ {WakeEnableBit(k, ix)}
       ELSE (old \ ALL_WAKE_EVENTS) \cup {WakeEventBit(k, ix)}

\* a register write of a wake function: read, modify, write back
phy_wake_write(t) ==
    /\ pc[t] \in {"wk_first", "wk_second"}
    /\ LET v == IF wen[t]
                   THEN enable_wake_value(impl[t], index[t], pc[t] = "wk_first", elpg0)
                   ELSE disable_wake_value(impl[t], index[t], pc[t] = "wk_first", elpg0)
       IN /\ reg0' = [reg0 EXCEPT ![t] = v]
          /\ elpg0' = Elpg0Write(v)
    /\ Goto(t, IF pc[t] = "wk_first" THEN "wk_second" ELSE "ph_unlock")
    /\ UNCHANGED <<laneFrame, usb2Vars, sspx, elpg1, lock, ret, index, lane, impl, wen,
                   speed, nEvt, nLaneOps, pmc, utmi_pad_cfg>>

TCTRL_VALUE(x) == x % 64
PCTRL_VALUE(x) == (x \div 64) % 64

\* RPD_CTRL_VALUE(x) = (((x) << 26) & 0x1f) on a u32: the low five bits of
\* x * 2^26 mod 2^32, which only the low bits of x reach
RPD_CTRL_VALUE(x) == (((x % 32) * (2 ^ 26)) % 32)

\* tegra210_utmi_phy_get_pad_config(padctl, lane->index, &priv->utmi_pad_cfg)
utmi_phy_get_pad_config(t) ==
    /\ pc[t] = "pmc_cfg"
    /\ utmi_pad_cfg' = [tctrl |-> TCTRL_VALUE(bias_pad_ctl1),
                        pctrl |-> PCTRL_VALUE(bias_pad_ctl1),
                        rpd_ctrl |-> RPD_CTRL_VALUE(otg_pad_ctl1[index[t]])]
    /\ Goto(t, "pmc_call")
    /\ UNCHANGED <<laneFrame, usb2Vars, sspx, elpg0, elpg1, lock, ret, index, lane, impl,
                   wen, speed, reg0, nEvt, nLaneOps, pmc>>

\* return tegra_pmc_utmi_phy_enable_sleepwalk(lane->index, speed,
\* &priv->utmi_pad_cfg) and the three other calls of the Power-Management
\* controller
pmc_phy_sleepwalk(t) ==
    /\ pc[t] = "pmc_call"
    /\ pmc' = [pmc EXCEPT ![t] =
                  IF impl[t] = "utmi" /\ wen[t]
                     THEN [op |-> "utmi_phy_enable_sleepwalk", index |-> index[t],
                           speed |-> speed[t], tctrl |-> utmi_pad_cfg.tctrl,
                           pctrl |-> utmi_pad_cfg.pctrl,
                           rpd_ctrl |-> utmi_pad_cfg.rpd_ctrl]
                     ELSE [NoPmcCall EXCEPT
                              !.op = impl[t] \o (IF wen[t] THEN "_phy_enable_sleepwalk"
                                                          ELSE "_phy_disable_sleepwalk"),
                              !.index = index[t]]]
    /\ \E e \in RegErrs : ret' = [ret EXCEPT ![t] = e]
    /\ Goto(t, "ln_ret")
    /\ UNCHANGED <<laneFrame, usb2Vars, sspx, elpg0, elpg1, lock, index, lane, impl, wen,
                   speed, reg0, nEvt, nLaneOps, utmi_pad_cfg>>

\* mutex_unlock(&padctl->lock); return 0
lane_unlock(t) ==
    /\ pc[t] = "ph_unlock"
    /\ lock' = NoThread
    /\ ret' = [ret EXCEPT ![t] = 0]
    /\ Goto(t, "ln_ret")
    /\ UNCHANGED <<laneFrame, usb2Vars, sspx, elpg0, elpg1, index, lane, impl, wen, speed, reg0,
                   nEvt, nLaneOps, pmc, utmi_pad_cfg>>

\* the caller has the return value of phy_wake / phy_sleepwalk; the locals of
\* the call are gone
lane_return(t) ==
    /\ pc[t] = "ln_ret"
    /\ index' = [index EXCEPT ![t] = 0]
    /\ lane' = [lane EXCEPT ![t] = NoLane]
    /\ impl' = [impl EXCEPT ![t] = "none"]
    /\ wen' = [wen EXCEPT ![t] = FALSE]
    /\ speed' = [speed EXCEPT ![t] = "USB_SPEED_UNKNOWN"]
    /\ reg0' = [reg0 EXCEPT ![t] = {}]
    /\ pmc' = [pmc EXCEPT ![t] = NoPmcCall]
    /\ Goto(t, "idle")
    /\ UNCHANGED <<laneFrame, usb2Vars, sspx, elpg0, elpg1, lock, ret, nEvt, nLaneOps,
                   utmi_pad_cfg>>

\* the hardware raises the wake event b
wake_event(b) ==
    /\ nEvt < MaxEvents
    /\ nEvt' = nEvt + 1
    /\ b \in WakeSources
    /\ elpg0' = elpg0 \cup {b}
    /\ UNCHANGED <<laneFrame, usb2Vars, sspx, elpg1, lock, pc, ret, index, lane, impl, wen,
                   speed, reg0, nLaneOps, pmc, utmi_pad_cfg>>

InitWake ==
    /\ InitPadctl
    /\ soc = "tegra210"
    /\ sata_used_by_xusb = FALSE
    /\ InitUsb3Regs
    /\ InitOtgState
    /\ InitLaneState
    /\ InitHsicRegs
    /\ InitPadDefaults
    /\ wake_w1c \in BOOLEAN
    /\ bias_pad_ctl1 = 0
    /\ fuse = [rpd_ctrl |-> 0, hs_term_range_adj |-> 0]
    /\ usb3_port = [p \in SsPorts |-> p]
    /\ usb3_internal = [p \in SsPorts |-> FALSE]
    /\ xusb_lanes = Lanes
    /\ otg_vbus_alwayson = FALSE
    /\ oc_pinctrl = FALSE
    /\ supply = "off"

NextWake ==
    \/ \E t \in Threads :
          \/ tegra210_xusb_padctl_phy_wake(t)
          \/ tegra210_xusb_padctl_phy_sleepwalk(t)
          \/ lane_lock(t)
          \/ usb3_phy_lock(t)
          \/ usb3_phy_enable_sleepwalk_write(t)
          \/ usb3_phy_disable_sleepwalk_write(t)
          \/ phy_wake_write(t)
          \/ utmi_phy_get_pad_config(t)
          \/ pmc_phy_sleepwalk(t)
          \/ lane_unlock(t)
          \/ lane_return(t)
    \/ \E b \in WakeSources : wake_event(b)

SpecWake == InitWake /\ [][NextWake]_vars

\* thread t makes a register write of enable_wake in this step
EnableWakeWrite(t) ==
    pc[t] \in {"wk_first", "wk_second"} /\ wen[t] /\ pc'[t] # pc[t]

\* C23 as stated: enable_wake for one port first clears the pending wake-event
\* bits of every port and only afterwards sets the port's wake-interrupt-enable
\* bit, so that no event of another port is pending once the port's wake is
\* enabled.
C23_ClearsAllEventsFirst ==
    [][\A t \in Threads :
          EnableWakeWrite(t) =>
             /\ pc[t] = "wk_first" => elpg0' \cap ALL_WAKE_EVENTS = {}
             /\ pc[t] = "wk_second" =>
                   /\ WakeEnableBit(impl[t], index[t]) \in elpg0'
                   /\ (elpg0' \cap ALL_WAKE_EVENTS)
                         \subseteq {WakeEventBit(impl[t], index[t])}]_vars

\* C23 amended: enable_wake makes two writes of the wake register under the
\* lock.  Each value written has every wake-event bit 0, except that the first
\* has the port's own wake-event bit 1; the second has the port's
\* wake-interrupt-enable bit 1.  Where the hardware clears an event bit written
\* as 1, the first write clears the port's own event and the events of the other
\* ports stay as they are over both writes; where it stores the value written,
\* the port's own event bit is set by the first write and no event bit is set
\* after the second.
C23_AcksOwnEventOnly ==
    [][\A t \in Threads :
          EnableWakeWrite(t) =>
             LET own == IF pc[t] = "wk_first"
                           THEN {WakeEventBit(impl[t], index[t])} ELSE {}
             IN /\ lock = t
                /\ reg0'[t] \cap ALL_WAKE_EVENTS = own
                /\ pc[t] = "wk_second" =>
                      /\ WakeEnableBit(impl[t], index[t]) \in reg0'[t]
                      /\ WakeEnableBit(impl[t], index[t]) \in elpg0'
                /\ wake_w1c =>
                      elpg0' \cap ALL_WAKE_EVENTS = (elpg0 \cap ALL_WAKE_EVENTS) \ own
                /\ ~wake_w1c => elpg0' \cap ALL_WAKE_EVENTS = own]_vars

\* enable_wake has set the enable bit of its port while the event of another
\* port, raised before, is still pending
C23_Witness ==
    \E t \in Threads :
       /\ pc[t] = "ph_unlock"
       /\ wen[t]
       /\ impl[t] = "utmi"
       /\ WakeEnableBit(impl[t], index[t]) \in elpg0
       /\ SS_PORT_WAKEUP_EVENT(1) \in elpg0

\* thread t makes a register write of the SuperSpeed enable_sleepwalk /
\* disable_sleepwalk of a lane that has a port
SleepwalkWrite(t) ==
    /\ pc[t] \in {"sw_early", "sw_clamp", "swd_early", "swd_clamp"}
    /\ pc'[t] # pc[t]
    /\ index[t] # NoPort

\* C25: for a SuperSpeed lane, enable_sleepwalk sets CLAMP_EN_EARLY and then
\* CLAMP_EN of the lane's port, disable_sleepwalk clears them and leaves both
\* clear, and no write of either changes the port's VCORE_DOWN bit, a bit of
\* another port or an AUX_MUX_LP0 bit.
C25_SleepwalkClampsOwnPort ==
    [][\A t \in Threads :
          SleepwalkWrite(t) =>
             LET p == index[t]
                 f == IF pc[t] \in {"sw_early", "swd_early"} THEN "CLAMP_EN_EARLY"
                                                            ELSE "CLAMP_EN"
                 v == IF pc[t] \in {"sw_early", "sw_clamp"} THEN 1 ELSE 0
             IN /\ sspx' = [sspx EXCEPT ![p][f] = v]
                /\ elpg1' = elpg1
                /\ pc[t] = "sw_clamp" => sspx[p].CLAMP_EN_EARLY = 1
                /\ pc[t] = "swd_clamp" =>
                      sspx'[p].CLAMP_EN_EARLY = 0 /\ sspx'[p].CLAMP_EN = 0]_vars

\* one caller has enabled sleepwalk on the lane of SuperSpeed port 1 and the
\* other has then disabled it: both clamp bits are clear, VCORE_DOWN is as before
C25_Witness ==
    \E t, u \in Threads :
       /\ pc[u] = "ln_ret" /\ impl[u] = "usb3" /\ wen[u] /\ speed[u] \in Speeds
       /\ pc[t] = "ph_unlock" /\ impl[t] = "usb3" /\ ~wen[t] /\ speed[t] \in Speeds
       /\ index[t] = index[u]
       /\ sspx[index[t]] = [CLAMP_EN |-> 0, CLAMP_EN_EARLY |-> 0, VCORE_DOWN |-> 1]

\* C27: phy_wake and phy_sleepwalk dispatch by lane kind: a USB2 lane to the
\* USB2 implementation, the HSIC lane to the HSIC one, a lane of the PCIe or of
\* the SATA pad that carries a USB3 port to the SuperSpeed one; no lane of the
\* four kinds is rejected with -EINVAL, and a call without a lane returns 0.
C27_DispatchByLaneKind ==
    \A t \in Threads :
       pc[t] # "idle" =>
          IF lane[t] = NoLane
             THEN impl[t] = "none" /\ ret[t] = 0
             ELSE /\ lane[t].type = "usb2" => impl[t] = "utmi"
                  /\ lane[t].type = "hsic" => impl[t] = "hsic"
                  /\ (lane[t].type \in {"pcie", "sata"}
                         /\ tegra210_usb3_lane_map(lane[t]) # NoPort) => impl[t] = "usb3"
                  /\ ~(pc[t] = "ln_ret" /\ impl[t] = "none")

\* ================================================= USB2 pad: lane power on / off
\* the USB2 lanes that have a port in the device tree, and the lanes callers
\* pass
Usb2Ports == {0, 1}
Usb2Args == {0, 1, 3}

\* x with the field of the given width at the given shift replaced by the low
\* bits of v: value &= ~(mask << shift); value |= (v & mask) << shift
SetField(x, shift, width, v) ==
    x - ((x \div (2 ^ shift)) % (2 ^ width)) * (2 ^ shift)
      + (v % (2 ^ width)) * (2 ^ shift)

\* the variables no step of a USB2 lane operation changes
usb2Frame == <<laneFrame, sspx, elpg0, elpg1, impl, wen, speed, reg0, nEvt, nLaneOps,
               pmc, utmi_pad_cfg, fuse>>

\* the variables the register writes of USB2 lane power_on / power_off leave
\* alone: all of usb2Frame but the per-port clamp bits and the port map of the
\* SuperSpeed ports and XUSB_PADCTL_USB2_OTG_PADX_CTL0
usb2PadFrame == <<laneCore, hsicVars, padCfgVars, pmcVars, elpg0, elpg1, impl, wen,
                  speed, reg0, nEvt, nLaneOps, pmc, utmi_pad_cfg, fuse>>

\* XUSB_PADCTL_USB2_OTG_PAD_CTL0_HS_CURR_LEVEL (mask 0x3f at shift 0) and
\* XUSB_PADCTL_USB2_OTG_PAD_CTL0_PD, _PD2, _PD_ZI
OTG_PAD_CTL0_HS_CURR_LEVEL == 0 .. 5
OTG_PAD_CTL0_PD == {26, 27, 29}

\* the fake SuperSpeed port f of a USB2 port is mapped to the lane and its
\* clamps are released: PORTX_MAP(f, index), then SSPX_ELPG_VCORE_DOWN,
\* _CLAMP_EN_EARLY and _CLAMP_EN cleared; nothing if f is -1
FakePortMap(m, f, i) ==
    IF f = NoPort THEN m ELSE [m EXCEPT ![f].MAP = PORTX_MAP(i)]
FakePortUnclamp(x, f) ==
    IF f = NoPort THEN x
    ELSE [x EXCEPT ![f] = [CLAMP_EN |-> 0, CLAMP_EN_EARLY |-> 0, VCORE_DOWN |-> 0]]

\* the fake SuperSpeed port f is clamped (SSPX_ELPG_CLAMP_EN_EARLY, _CLAMP_EN,
\* _VCORE_DOWN set) and unmapped (PORTX_MAP_DISABLED); nothing if f is -1
FakePortUnmap(m, f) ==
    IF f = NoPort THEN m ELSE [m EXCEPT ![f].MAP = PORTX_MAP_DISABLED]
FakePortClamp(x, f) ==
    IF f = NoPort THEN x
    ELSE [x EXCEPT ![f] = [CLAMP_EN |-> 1, CLAMP_EN_EARLY |-> 1, VCORE_DOWN |-> 1]]

\* value &= ~((HS_CURR_LEVEL_MASK << HS_CURR_LEVEL_SHIFT) | PD | PD2 | PD_ZI);
\* value |= (level + offset) << HS_CURR_LEVEL_SHIFT, on the set of bits v
OtgPadCtl0Value(v, level, offset) ==
    (v \ (OTG_PAD_CTL0_HS_CURR_LEVEL \cup OTG_PAD_CTL0_PD)) \cup BitsOf(level + offset, 0)

\* entry of tegra210_usb2_phy_power_on / _power_off: port =
\* tegra_xusb_find_usb2_port(padctl, lane->index); if (!port) return -ENODEV
Usb2Call(t, entry) ==
    /\ pc[t] = "idle"
    /\ nUsb2Ops < MaxUsb2Ops
    /\ nUsb2Ops' = nUsb2Ops + 1
    /\ \E i \in Usb2Args :
          /\ index' = [index EXCEPT ![t] = i]
          /\ lane' = [lane EXCEPT ![t] = [type |-> "usb2", index |-> i]]
          /\ IF i \in Usb2Ports
                THEN Goto(t, entry) /\ UNCHANGED ret
                ELSE Goto(t, "ln_ret") /\ ret' = [ret EXCEPT ![t] = -ENODEV]
    /\ UNCHANGED <<usb2Frame, usb2Regs, usb2_enable, usb2_clk, lock>>

tegra210_usb2_phy_power_on(t) == Usb2Call(t, "u2on_lock")

tegra210_usb2_phy_power_off(t) == Usb2Call(t, "u2off_lock")

\* phy_sleepwalk called with the phy of a USB2 lane
usb2_phy_sleepwalk(t) ==
    /\ LaneCall(t, {[type |-> "usb2", index |-> i] : i \in Usb2Ports}, SleepwalkFirst,
                Speeds)
    /\ UNCHANGED nUsb2Ops

\* mutex_lock(&padctl->lock)
usb2_lock(t) ==
    /\ pc[t] \in {"u2on_lock", "u2off_lock"}
    /\ LockFree
    /\ lock' = t
    /\ Goto(t, IF pc[t] = "u2on_lock" THEN "u2on_pad" ELSE "u2off_count")
    /\ UNCHANGED <<usb2Frame, usb2Regs, usb2_enable, usb2_clk, ret, index, lane,
                   nUsb2Ops>>

\* power_on maps and unclamps the fake USB3 port of the lane's port, if it has
\* one, and programs the lane's own registers; of these
\* XUSB_PADCTL_USB2_OTG_PADX_CTL0(index) gets HS_CURR_LEVEL from the fuse and the
\* lane's offset and has its power-down bits cleared, and
\* XUSB_PADCTL_USB2_OTG_PADX_CTL_1(index) gets TERM_RANGE_ADJ and RPD_CTRL from
\* the fuses
usb2_phy_power_on_pad(t) ==
    /\ pc[t] = "u2on_pad"
    /\ ss_port_map' = FakePortMap(ss_port_map, usb3_port_fake[index[t]], index[t])
    /\ sspx' = FakePortUnclamp(sspx, usb3_port_fake[index[t]])
    /\ otg_pad_ctl0' =
          [otg_pad_ctl0 EXCEPT ![index[t]] =
              OtgPadCtl0Value(@, hs_curr_level[index[t]], hs_curr_level_offset[index[t]])]
    /\ otg_pad_ctl1' =
          [otg_pad_ctl1 EXCEPT ![index[t]] =
              SetField(SetField(@, 3, 4, fuse.hs_term_range_adj), 26, 5, fuse.rpd_ctrl)]
    /\ Goto(t, "u2on_count")
    /\ UNCHANGED <<usb2PadFrame, bias_pad_ctl1, bias_pd, usb2_enable, usb2_clk, lock, ret,
                   index, lane, nUsb2Ops>>

\* a power_on that arms the bias pad whatever pad->enable is
usb2_phy_power_on_count_always(t) ==
    /\ pc[t] = "u2on_count"
    /\ \E e \in ClkErrs :
          IF e # 0
             THEN /\ ret' = [ret EXCEPT ![t] = e]
                  /\ Goto(t, "u2_unlock")
                  /\ UNCHANGED usb2_clk
             ELSE /\ usb2_clk' = usb2_clk + 1
                  /\ Goto(t, "u2on_arm")
                  /\ UNCHANGED ret
    /\ UNCHANGED <<usb2Frame, usb2Regs, usb2_enable, lock, index, lane, nUsb2Ops>>

\* if (pad->enable > 0) { pad->enable++; unlock; return 0; }
\* err = clk_prepare_enable(pad->clk); if (err) goto out;
usb2_phy_power_on_count(t) ==
    /\ pc[t] = "u2on_count"
    /\ IF usb2_enable > 0
          THEN /\ usb2_enable' = usb2_enable + 1
               /\ ret' = [ret EXCEPT ![t] = 0]
               /\ Goto(t, "u2_unlock")
               /\ UNCHANGED usb2_clk
          ELSE /\ \E e \in ClkErrs :
                     IF e # 0
                        THEN /\ ret' = [ret EXCEPT ![t] = e]
                             /\ Goto(t, "u2_unlock")
                             /\ UNCHANGED usb2_clk
                        ELSE /\ usb2_clk' = usb2_clk + 1
                             /\ Goto(t, "u2on_arm")
                             /\ UNCHANGED ret
               /\ UNCHANGED usb2_enable
    /\ UNCHANGED <<usb2Frame, usb2Regs, lock, index, lane, nUsb2Ops>>

\* the bias pad is armed: USB2_TRK_START_TIMER(0x1e) and
\* USB2_TRK_DONE_RESET_TIMER(0xa) in BIAS_PAD_CTL_1, BIAS_PAD_CTL0_PD cleared,
\* USB2_PD_TRK cleared
usb2_phy_power_on_arm(t) ==
    /\ pc[t] = "u2on_arm"
    /\ bias_pad_ctl1' = SetField(SetField(SetField(bias_pad_ctl1, 12, 7, 30), 19, 7, 10),
                                 26, 1, 0)
    /\ bias_pd' = 0
    /\ Goto(t, "u2on_incr")
    /\ UNCHANGED <<usb2Frame, otg_pad_ctl1, usb2_enable, usb2_clk, lock, ret, index,
                   lane, nUsb2Ops>>

\* clk_disable_unprepare(pad->clk); pad->enable++; return 0
usb2_phy_power_on_incr(t) ==
    /\ pc[t] = "u2on_incr"
    /\ usb2_clk' = usb2_clk - 1
    /\ usb2_enable' = usb2_enable + 1
    /\ ret' = [ret EXCEPT ![t] = 0]
    /\ Goto(t, "u2_unlock")
    /\ UNCHANGED <<usb2Frame, usb2Regs, lock, index, lane, nUsb2Ops>>

\* a power_off that clamps and unmaps the fake USB3 port of the lane's port
\* whatever pad->enable is
usb2_phy_power_off_count_own_port(t) ==
    /\ pc[t] = "u2off_count"
    /\ IF usb2_enable = 0
          THEN UNCHANGED <<usb2_enable, bias_pd>>
          ELSE /\ usb2_enable' = usb2_enable - 1
               /\ bias_pd' = IF usb2_enable' > 0 THEN bias_pd ELSE 1
    /\ sspx' = FakePortClamp(sspx, usb3_port_fake[index[t]])
    /\ ss_port_map' = FakePortUnmap(ss_port_map, usb3_port_fake[index[t]])
    /\ ret' = [ret EXCEPT ![t] = 0]
    /\ Goto(t, "u2_unlock")
    /\ UNCHANGED <<usb2PadFrame, otg_pad_ctl0, bias_pad_ctl1, otg_pad_ctl1, usb2_clk,
                   lock, index, lane, nUsb2Ops>>

\* if (WARN_ON(pad->enable == 0)) goto out; if (--pad->enable > 0) goto out;
\* if (port->usb3_port_fake != -1) { the fake port is clamped and unmapped }
\* BIAS_PAD_CTL0_PD set; out: return 0
usb2_phy_power_off_count(t) ==
    /\ pc[t] = "u2off_count"
    /\ IF usb2_enable = 0
          THEN UNCHANGED <<usb2_enable, bias_pd, sspx, ss_port_map>>
          ELSE /\ usb2_enable' = usb2_enable - 1
               /\ IF usb2_enable' > 0
                     THEN UNCHANGED <<bias_pd, sspx, ss_port_map>>
                     ELSE /\ sspx' = FakePortClamp(sspx, usb3_port_fake[index[t]])
                          /\ ss_port_map' =
                                FakePortUnmap(ss_port_map, usb3_port_fake[index[t]])
                          /\ bias_pd' = 1
    /\ ret' = [ret EXCEPT ![t] = 0]
    /\ Goto(t, "u2_unlock")
    /\ UNCHANGED <<usb2PadFrame, otg_pad_ctl0, bias_pad_ctl1, otg_pad_ctl1, usb2_clk,
                   lock, index, lane, nUsb2Ops>>

\* mutex_unlock(&padctl->lock); return
usb2_unlock(t) ==
    /\ pc[t] = "u2_unlock"
    /\ lock' = NoThread
    /\ Goto(t, "ln_ret")
    /\ UNCHANGED <<usb2Frame, usb2Regs, usb2_enable, usb2_clk, ret, index, lane,
                   nUsb2Ops>>

\* values the tracking circuit may have left in TCTRL / PCTRL of BIAS_PAD_CTL_1
\* (with USB2_PD_TRK set), and values of the fuses
BiasValues == {2 ^ 26, 2 ^ 26 + 5 + 64 * 41}
FuseValues == {[rpd_ctrl |-> 0, hs_term_range_adj |-> 0],
               [rpd_ctrl |-> 21, hs_term_range_adj |-> 9]}

InitUsb2 ==
    /\ InitPadctl
    /\ soc = "tegra210"
    /\ sata_used_by_xusb = FALSE
    /\ InitUsb3Regs
    /\ InitOtgState
    /\ InitLaneState
    /\ InitHsicRegs
    /\ InitPadDefaults
    /\ wake_w1c = FALSE
    /\ bias_pad_ctl1 \in BiasValues
    /\ fuse \in FuseValues
    /\ usb3_port = [p \in SsPorts |-> p]
    /\ usb3_internal = [p \in SsPorts |-> FALSE]
    /\ xusb_lanes = Lanes
    /\ otg_vbus_alwayson = FALSE
    /\ oc_pinctrl = FALSE
    /\ supply = "off"

NextUsb2 ==
    \E t \in Threads :
        \/ tegra210_usb2_phy_power_on(t)
        \/ tegra210_usb2_phy_power_off(t)
        \/ usb2_phy_sleepwalk(t)
        \/ usb2_lock(t)
        \/ usb2_phy_power_on_pad(t)
        \/ usb2_phy_power_on_count(t)
        \/ usb2_phy_power_on_arm(t)
        \/ usb2_phy_power_on_incr(t)
        \/ usb2_phy_power_off_count(t)
        \/ usb2_unlock(t)
        \/ utmi_phy_get_pad_config(t)
        \/ pmc_phy_sleepwalk(t)
        \/ lane_return(t)

SpecUsb2 == InitUsb2 /\ [][NextUsb2]_vars

\* C24: when phy_sleepwalk reads the pad configuration of a USB2 lane, the
\* snapshot equals the registers: tctrl and pctrl are bits 0..5 and 6..11 of
\* BIAS_PAD_CTL_1, rpd_ctrl is bits 26..30 of the lane's OTG_PADX_CTL_1, the
\* field power_on programs from the fuse; and enable_sleepwalk hands that
\* snapshot to the Power-Management controller.
C24_SnapshotEqualsRegisters ==
    [][\A t \in Threads :
          /\ (pc[t] = "pmc_cfg" /\ pc'[t] = "pmc_call") =>
                utmi_pad_cfg' =
                   [tctrl |-> bias_pad_ctl1 % 64,
                    pctrl |-> (bias_pad_ctl1 \div 64) % 64,
                    rpd_ctrl |-> (otg_pad_ctl1[index[t]] \div (2 ^ 26)) % 32]
          /\ (pc[t] = "pmc_call" /\ pc'[t] = "ln_ret" /\ impl[t] = "utmi" /\ wen[t]) =>
                /\ pmc'[t].op = "utmi_phy_enable_sleepwalk"
                /\ pmc'[t].index = index[t]
                /\ pmc'[t].tctrl = utmi_pad_cfg.tctrl
                /\ pmc'[t].pctrl = utmi_pad_cfg.pctrl
                /\ pmc'[t].rpd_ctrl = utmi_pad_cfg.rpd_ctrl]_vars

\* the part of C24 about tctrl and pctrl alone
C24_TctrlPctrlOnly ==
    [][\A t \in Threads :
          (pc[t] = "pmc_cfg" /\ pc'[t] = "pmc_call") =>
              /\ utmi_pad_cfg'.tctrl = bias_pad_ctl1 % 64
              /\ utmi_pad_cfg'.pctrl = (bias_pad_ctl1 \div 64) % 64]_vars

\* the bias pad registers differ between the two states of a step
BiasWritten == bias_pad_ctl1' # bias_pad_ctl1 \/ bias_pd' # bias_pd

\* C26: for the USB2 pad, over any sequence of lane power_on / power_off
\* calls, pad->enable is never negative and moves by one at a time; the bias
\* pad is armed (timers programmed, PD and PD_TRK cleared) only by a power_on
\* that finds the count 0 and then takes it to 1, and powered down (PD set)
\* only by the power_off that takes the count from 1 to 0; a power_on at a
\* positive count only increments; a power_off at count zero changes neither
\* the count nor a bias register; with the lock free the bias pad is powered
\* exactly when the count is positive.
C26_BiasFollowsEnableCount ==
    /\ [](usb2_enable >= 0 /\ (LockFree => (bias_pd = 0 <=> usb2_enable > 0)))
    /\ [][/\ usb2_enable' \in {usb2_enable - 1, usb2_enable, usb2_enable + 1}
          /\ BiasWritten =>
                \E t \in Threads :
                   /\ lock = t
                   /\ \/ /\ pc[t] = "u2on_arm" /\ pc'[t] = "u2on_incr"
                         /\ usb2_enable = 0
                         /\ bias_pd' = 0
                         /\ (bias_pad_ctl1' \div (2 ^ 26)) % 2 = 0
                      \/ /\ pc[t] = "u2off_count"
                         /\ usb2_enable = 1 /\ usb2_enable' = 0
                         /\ bias_pd' = 1
                         /\ bias_pad_ctl1' = bias_pad_ctl1
          /\ \A t \in Threads :
                /\ (pc[t] = "u2on_incr" /\ pc'[t] # pc[t]) =>
                      usb2_enable = 0 /\ usb2_enable' = 1 /\ bias_pd = 0
                /\ (pc[t] = "u2on_count" /\ pc'[t] # pc[t] /\ usb2_enable > 0) =>
                      /\ usb2_enable' = usb2_enable + 1
                      /\ pc'[t] = "u2_unlock" /\ ret'[t] = 0
                /\ (pc[t] = "u2off_count" /\ pc'[t] # pc[t]) =>
                      /\ usb2_enable' = (IF usb2_enable = 0 THEN 0 ELSE usb2_enable - 1)
                      /\ bias_pd' = (IF usb2_enable = 1 THEN 1 ELSE bias_pd)
                      /\ ret'[t] = 0]_vars

\* a power_off has just taken the count from 1 to 0 and powered down the bias
\* pad that an earlier power_on had armed
C26_Witness ==
    /\ usb2_enable = 0
    /\ bias_pd = 1
    /\ (bias_pad_ctl1 \div (2 ^ 12)) % 128 = 30
    /\ (bias_pad_ctl1 \div (2 ^ 26)) % 2 = 0
    /\ \E t \in Threads : pc[t] = "u2_unlock" /\ lock = t /\ ret[t] = 0

\* ============================================ lane init / exit of the four pads
\* port->port_cap, port->supply and port->oc_pin of the USB2 ports: port 0 is
\* the OTG port, port 1 a host port with an over-current pin
Usb2PortCap == [i \in Usb2Ports |-> IF i = 0 THEN "USB_OTG_CAP" ELSE "USB_HOST_CAP"]
Usb2PortSupply == [i \in Usb2Ports |-> TRUE]
Usb2OcPin == [i \in Usb2Ports |-> IF i = 0 THEN -1 ELSE 1]

\* number of phy_init / phy_exit calls that reach the shared enable / disable
MaxInitCalls == 3

\* the lanes whose phy the callers initialise
InitArgs == {[type |-> "usb2", index |-> 1], [type |-> "usb2", index |-> 3],
             [type |-> "hsic", index |-> 0], [type |-> "pcie", index |-> 0],
             [type |-> "sata", index |-> 0]}

\* calls that were issued and have not yet taken padctl->lock in
\* tegra210_xusb_padctl_enable / _disable
Pending ==
    Cardinality({t \in Threads :
                    pc[t] \in {"e_lock", "d_lock", "i2_lock", "i2_mux", "ih_lock",
                               "ih_mux", "x2_lock", "x2_reg"}})

\* the variables no step of the init / exit functions outside
\* tegra210_xusb_padctl_enable / _disable changes
initFrame == <<usb3Cfg, usb3Regs, port, step, nPortOps, otgCfg, vbus_id, otg_vbus_on,
               supply, vbus_en, work, wpc, wreg, rc, reg, set, nOvr, runVars,
               wakeVars, usb2Vars, cfgVars, enable, tmp, err, uret, cur, hwVars,
               logVars, trace, cntVars, timeout, tailVars>>

\* phy_init(phy) on a phy the caller does not hold: the init function of the
\* lane's pad is entered; tegra210_usb2_phy_init first looks up the port
phy_init(t) ==
    /\ pc[t] = "idle"
    /\ held[t] = NoLane
    /\ Len(hist) + Pending < MaxInitCalls
    /\ \E l \in InitArgs :
          /\ l.type \in {"pcie", "sata"} => l \in Lanes
          /\ lane' = [lane EXCEPT ![t] = l]
          /\ index' = [index EXCEPT ![t] = l.index]
          /\ IF l.type = "usb2" /\ l.index \notin Usb2Ports
                THEN Goto(t, "ret") /\ ret' = [ret EXCEPT ![t] = -ENODEV]
                ELSE /\ Goto(t, CASE l.type = "usb2" -> "i2_lock"
                                  [] l.type = "hsic" -> "ih_lock"
                                  [] OTHER -> "e_lock")
                     /\ UNCHANGED ret
    /\ op' = [op EXCEPT ![t] = "enable"]
    /\ contended' = (contended \/ lock \notin {NoThread, t})
    /\ UNCHANGED <<initFrame, initVars, lock, hist>>

\* phy_exit(phy) on the phy the caller holds: the exit function of the lane's
\* pad is entered; tegra210_usb2_phy_exit first looks up the port
phy_exit(t) ==
    /\ pc[t] = "idle"
    /\ held[t] # NoLane
    /\ Len(hist) + Pending < MaxInitCalls
    /\ lane' = [lane EXCEPT ![t] = held[t]]
    /\ index' = [index EXCEPT ![t] = held[t].index]
    /\ IF held[t].type = "usb2" /\ held[t].index \notin Usb2Ports
          THEN Goto(t, "ret") /\ ret' = [ret EXCEPT ![t] = -ENODEV]
          ELSE /\ Goto(t, IF held[t].type = "usb2" THEN "x2_lock" ELSE "d_lock")
               /\ UNCHANGED ret
    /\ op' = [op EXCEPT ![t] = "disable"]
    /\ contended' = (contended \/ lock \notin {NoThread, t})
    /\ UNCHANGED <<initFrame, initVars, lock, hist>>

\* mutex_lock(&padctl->lock) of tegra210_usb2_phy_init / _exit and of
\* tegra210_hsic_phy_init
phy_init_lock(t) ==
    /\ pc[t] \in {"i2_lock", "ih_lock", "x2_lock"}
    /\ LockFree
    /\ lock' = t
    /\ Goto(t, CASE pc[t] = "i2_lock" -> "i2_mux"
                 [] pc[t] = "ih_lock" -> "ih_mux"
                 [] OTHER -> "x2_reg")
    /\ UNCHANGED <<initFrame, initVars, ret, index, lane, callVars>>

\* a tegra210_hsic_phy_init that returns 0 without the shared enable
hsic_phy_init_mux_only(t) ==
    /\ pc[t] = "ih_mux"
    /\ pad_mux' = SetField(pad_mux, 16, 2, 1)
    /\ lock' = NoThread
    /\ ret' = [ret EXCEPT ![t] = 0]
    /\ Goto(t, "ret")
    /\ UNCHANGED <<initFrame, held, port_supply, usb2_otg_port_base_1, index, lane,
                   callVars>>

\* tegra210_hsic_phy_init: HSIC_PAD_TRK of USB2_PAD_MUX set to XUSB, unlock;
\* return tegra210_xusb_padctl_enable(padctl)
hsic_phy_init_mux(t) ==
    /\ pc[t] = "ih_mux"
    /\ pad_mux' = SetField(pad_mux, 16, 2, 1)
    /\ lock' = NoThread
    /\ Goto(t, "e_lock")
    /\ UNCHANGED <<initFrame, held, port_supply, usb2_otg_port_base_1, ret, index, lane,
                   callVars>>

\* tegra210_usb2_phy_init under the lock: USB2_BIAS_PAD of USB2_PAD_MUX set to
\* XUSB; regulator_enable(port->supply) for a host-only port without
\* over-current pin, a failure unlocks and returns; the OTG port is recorded;
\* unlock; return tegra210_xusb_padctl_enable(padctl)
usb2_phy_init_mux(t) ==
    LET i == index[t] IN
    /\ pc[t] = "i2_mux"
    /\ pad_mux' = SetField(pad_mux, 18, 2, 1)
    /\ lock' = NoThread
    /\ \E e \in (IF /\ Usb2PortSupply[i] /\ Usb2PortCap[i] = "USB_HOST_CAP"
                    /\ (~oc_pinctrl \/ Usb2OcPin[i] < 0)
                    THEN RegErrs ELSE {1}) :
          IF e < 0
             THEN /\ ret' = [ret EXCEPT ![t] = e]
                  /\ Goto(t, "ret")
                  /\ UNCHANGED <<port_supply, usb2_otg_port_base_1>>
             ELSE /\ port_supply' = [port_supply EXCEPT ![i] = IF e = 0 THEN @ + 1 ELSE @]
                  /\ usb2_otg_port_base_1' =
                        (IF Usb2PortCap[i] = "USB_OTG_CAP" THEN i + 1
                                                           ELSE usb2_otg_port_base_1)
                  /\ Goto(t, "e_lock")
                  /\ UNCHANGED ret
    /\ UNCHANGED <<initFrame, held, index, lane, callVars>>

\* tegra210_usb2_phy_exit under the lock: regulator_disable(port->supply) for
\* a host-only port, the OTG port is forgotten; unlock; return
\* tegra210_xusb_padctl_disable(padctl)
usb2_phy_exit_reg(t) ==
    LET i == index[t] IN
    /\ pc[t] = "x2_reg"
    /\ port_supply' = [port_supply EXCEPT ![i] =
                          IF Usb2PortSupply[i] /\ Usb2PortCap[i] = "USB_HOST_CAP"
                             THEN @ - 1 ELSE @]
    /\ usb2_otg_port_base_1' = (IF i = usb2_otg_port_base_1 - 1 THEN 0
                                                                ELSE usb2_otg_port_base_1)
    /\ lock' = NoThread
    /\ Goto(t, "d_lock")
    /\ UNCHANGED <<initFrame, held, pad_mux, ret, index, lane, callVars>>

\* the init / exit function returns to the phy core, which counts the phy as
\* initialised after an init that returned 0 and as released after an exit
phy_return(t) ==
    /\ pc[t] = "ret"
    /\ held' = [held EXCEPT ![t] =
                   IF op[t] = "enable" THEN (IF ret[t] = 0 THEN lane[t] ELSE NoLane)
                                       ELSE NoLane]
    /\ Goto(t, "idle")
    /\ ret' = [ret EXCEPT ![t] = 0]
    /\ tmp' = [tmp EXCEPT ![t] = 0]
    /\ dmesg' = [dmesg EXCEPT ![t] = {}]
    /\ sawTmo' = [sawTmo EXCEPT ![t] = FALSE]
    /\ op' = [op EXCEPT ![t] = "none"]
    /\ UNCHANGED <<usb3Vars, otgCfg, vbus_id, otg_vbus_on, supply, vbus_en, work, wpc,
                   wreg, rc, reg, set, nOvr, runVars, wakeVars, usb2Vars, pad_mux,
                   port_supply, usb2_otg_port_base_1, cfgVars, lock, enable, err, uret,
                   cur, hwVars, tmo, rstFailed, trace, hist, contended, cntVars, timeout,
                   tailVars>>

InitLaneInit ==
    /\ InitPadctl
    /\ sata_used_by_xusb = FALSE
    /\ InitUsb3Regs
    /\ InitOtgState
    /\ InitLaneState
    /\ InitHsicRegs
    /\ InitPadDefaults
    /\ wake_w1c = FALSE
    /\ bias_pad_ctl1 = 0
    /\ fuse = [rpd_ctrl |-> 0, hs_term_range_adj |-> 0]
    /\ usb3_port = [p \in SsPorts |-> p]
    /\ usb3_internal = [p \in SsPorts |-> FALSE]
    /\ xusb_lanes = {}
    /\ otg_vbus_alwayson = FALSE
    /\ oc_pinctrl \in BOOLEAN
    /\ supply = "off"

\* the steps of tegra210_xusb_padctl_enable and tegra210_xusb_padctl_disable
PadctlStep(t) ==
    \/ padctl_enable_lock(t)
    \/ padctl_enable_read(t)
    \/ padctl_enable_incr(t)
    \/ padctl_enable_plle(t)
    \/ padctl_enable_mgmt(t)
    \/ uphy_rst(t)
    \/ pex_uphy_cfg(t)
    \/ uphy_cal_ctrl(t)
    \/ uphy_dco_ctrl(t)
    \/ uphy_pwr_ovrd(t)
    \/ uphy_cal_ovrd(t)
    \/ uphy_rcal_ovrd(t)
    \/ pex_uphy_ctl4(t)
    \/ sata_uphy_ctl4(t)
    \/ uphy_freq(t)
    \/ uphy_iddq(t)
    \/ uphy_sleep(t)
    \/ uphy_refclkbuf(t)
    \/ uphy_cal_en(t)
    \/ uphy_wait_cal_done(t)
    \/ uphy_cal_en_clr(t)
    \/ uphy_wait_cal_clear(t)
    \/ uphy_pll_en(t)
    \/ uphy_wait_lockdet(t)
    \/ uphy_rcal_en(t)
    \/ uphy_wait_rcal_done(t)
    \/ uphy_rcal_en_clr(t)
    \/ uphy_wait_rcal_clear(t)
    \/ uphy_rcal_clk_clr(t)
    \/ uphy_hw_ctl(t)
    \/ uphy_pwr_ovrd_clr(t)
    \/ uphy_cal_ovrd_clr(t)
    \/ uphy_rcal_ovrd_clr(t)
    \/ uphy_hw_seq(t)
    \/ padctl_enable_next(t)
    \/ padctl_enable_plle_hw(t)
    \/ padctl_enable_clamp(t)
    \/ padctl_enable_early(t)
    \/ padctl_enable_vcore(t)
    \/ padctl_enable_out(t)
    \/ padctl_disable_lock(t)
    \/ padctl_disable_check(t)
    \/ padctl_disable_decr(t)
    \/ padctl_disable_vcore(t)
    \/ padctl_disable_early(t)
    \/ padctl_disable_clamp(t)
    \/ padctl_disable_out(t)

NextLaneInit ==
    \E t \in Threads :
        \/ phy_init(t)
        \/ phy_exit(t)
        \/ phy_init_lock(t)
        \/ hsic_phy_init_mux(t)
        \/ usb2_phy_init_mux(t)
        \/ usb2_phy_exit_reg(t)
        \/ phy_return(t)
        \/ PadctlStep(t)

SpecLaneInit == InitLaneInit /\ [][NextLaneInit]_vars

\* positions of an init call before the increment of padctl->enable, and of an
\* exit call before the decrement
PreIncr == {"idle", "i2_lock", "i2_mux", "ih_lock", "ih_mux", "e_lock", "e_read", "e_incr"}
PreDecr == {"idle", "x2_lock", "x2_reg", "d_lock", "d_check", "d_decr"}

\* what thread t accounts for in padctl->enable: 1 for a lane it holds until
\* its exit has decremented, 1 for an init call that has incremented (an init
\* that returned before the shared enable has not), 1 for an init that failed
\* inside the shared enable and left the lock taken (C7)
EnableShare(t) ==
    IF held[t] # NoLane
       THEN (IF op[t] = "disable" /\ pc[t] \notin PreDecr THEN 0 ELSE 1)
    ELSE IF op[t] = "enable" /\ pc[t] \notin PreIncr
       THEN (IF pc[t] = "ret" /\ ret[t] < 0 /\ lock # t THEN 0 ELSE 1)
    ELSE IF lock = t /\ pc[t] \in {"idle", "i2_lock", "ih_lock", "e_lock"} THEN 1
    ELSE 0

\* C28: for a lane of each of the four pads, an init that returns 0 has
\* raised padctl->enable by exactly one and the exit that follows it lowers it
\* by exactly one; a USB2 init that returns before the shared enable (no
\* port, regulator failure) changes nothing.  padctl->enable changes only in
\* the increment of an init call and the decrement of an exit call, by one,
\* and at every moment equals the number of lanes held plus the calls in
\* flight that have already counted.
C28_InitExitBalance ==
    /\ [](enable = EnableShare(1) + EnableShare(2))
    /\ [][/\ enable' # enable =>
                \E t \in Threads :
                   /\ lock = t
                   /\ \/ op[t] = "enable" /\ pc[t] = "e_incr" /\ enable' = enable + 1
                      \/ op[t] = "disable" /\ pc[t] = "d_decr" /\ enable' = enable - 1
          /\ \A t \in Threads :
                /\ (pc[t] = "d_check" /\ pc'[t] # pc[t]) => pc'[t] = "d_decr"
                /\ (pc[t] = "i2_mux" /\ pc'[t] = "ret") => ret'[t] < 0 /\ lock' = NoThread
                /\ (pc[t] = "ret" /\ pc'[t] = "idle") =>
                      /\ (op[t] = "enable" /\ ret[t] = 0) => held'[t] = lane[t]
                      /\ (op[t] = "enable" /\ ret[t] # 0) => held'[t] = NoLane]_vars

\* one caller holds the USB2 lane of port 1 and the other has just returned
\* from the exit of the HSIC lane it had initialised
C28_Witness ==
    /\ held[1] = [type |-> "usb2", index |-> 1]
    /\ held[2] = [type |-> "hsic", index |-> 0]
    /\ pc[2] = "ret" /\ op[2] = "disable" /\ ret[2] = 0
    /\ pc[1] = "idle"
    /\ enable = 1

\* thread t has run tegra210_sata_uphy_enable to its end
SataPllEnabled(t) == pc[t] = "u_ret" /\ cur[t] = "S0"

\* C29: after tegra210_sata_uphy_enable the registers of the SATA PLL hold
\* TXCLKREF_EN set, and TXCLKREF_SEL and FREQ_NDIV at the USB values when
\* sata_used_by_xusb is true and at the SATA values when it is false.
C29_SataPllClockSelect ==
    \A t \in Threads :
        SataPllEnabled(t) =>
            /\ pll["S0"].TXCLKREF_EN = 1
            /\ pll["S0"].TXCLKREF_SEL = (IF sata_used_by_xusb THEN TXCLKREF_SEL_USB_VAL
                                                              ELSE TXCLKREF_SEL_SATA_VAL)
            /\ pll["S0"].FREQ_NDIV = (IF sata_used_by_xusb THEN FREQ_NDIV_USB_VAL
                                                           ELSE FREQ_NDIV_SATA_VAL)

\* the part of C29 about the divider alone, and the same three fields of the
\* PCIe PLL
C29_NdivAndPex ==
    \A t \in Threads :
        /\ SataPllEnabled(t) =>
              pll["S0"].FREQ_NDIV = (IF sata_used_by_xusb THEN FREQ_NDIV_USB_VAL
                                                          ELSE FREQ_NDIV_SATA_VAL)
        /\ (pc[t] = "u_ret" /\ cur[t] = "P0") =>
              /\ pll["P0"].TXCLKREF_EN = 1
              /\ pll["P0"].TXCLKREF_SEL = TXCLKREF_SEL_USB_VAL
              /\ pll["P0"].FREQ_NDIV = FREQ_NDIV_USB_VAL

\* the three override bits of PLL bank k in a register state
Overrides(p, k) == <<p[k].PWR_OVRD, p[k].CAL_OVRD, p[k].RCAL_OVRD>>

\* positions of tegra210_pex_uphy_enable / tegra210_sata_uphy_enable at which
\* the next statement writes CAL_EN, ENABLE, RCAL_EN or RCAL_CLK_EN
DynamicWrites == {"u_cal_en", "u_cal_en_clr", "u_pll_en", "u_rcal_en", "u_rcal_en_clr",
                  "u_rcal_clk_clr"}

\* C30: in tegra210_pex_uphy_enable / tegra210_sata_uphy_enable every write
\* of CAL_EN, ENABLE, RCAL_EN or RCAL_CLK_EN is made with PWR_OVRD, CAL_OVRD
\* and RCAL_OVRD all set, and these four bits change in no other step; when
\* the function returns the three overrides, CAL_EN, RCAL_EN and RCAL_CLK_EN
\* are clear and ENABLE is set; the hardware sequence is started with the
\* three overrides already cleared.
C30_SoftwareOwnsDynamicBits ==
    /\ [](\A t \in Threads :
             pc[t] = "u_ret" =>
                /\ Overrides(pll, cur[t]) = <<0, 0, 0>>
                /\ pll[cur[t]].CAL_EN = 0
                /\ pll[cur[t]].RCAL_EN = 0
                /\ pll[cur[t]].RCAL_CLK_EN = 0
                /\ pll[cur[t]].ENABLE = 1
                /\ cur[t] \in clk.hw_seq)
    /\ [][/\ \A t \in Threads :
                /\ (pc[t] \in DynamicWrites /\ pc'[t] # pc[t]) =>
                      /\ Overrides(pll, cur[t]) = <<1, 1, 1>>
                      /\ Overrides(pll', cur[t]) = <<1, 1, 1>>
                /\ (pc[t] = "u_hw_seq" /\ pc'[t] # pc[t]) =>
                      /\ Overrides(pll, cur[t]) = <<0, 0, 0>>
                      /\ cur[t] \in clk'.hw_seq
          /\ \A k \in PllKinds :
                /\ (\/ pll'[k].CAL_EN # pll[k].CAL_EN
                    \/ pll'[k].ENABLE # pll[k].ENABLE
                    \/ pll'[k].RCAL_EN # pll[k].RCAL_EN
                    \/ pll'[k].RCAL_CLK_EN # pll[k].RCAL_CLK_EN) =>
                      \E t \in Threads :
                         lock = t /\ cur[t] = k /\ pc[t] \in DynamicWrites /\ pc'[t] # pc[t]
                /\ (k \in clk'.hw_seq /\ k \notin clk.hw_seq) =>
                      Overrides(pll, k) = <<0, 0, 0>>]_vars

\* a caller has run the bring-up of the SATA PLL to its end, one of the polls
\* having timed out
C30_Witness ==
    \E t \in Threads :
        /\ pc[t] = "u_ret" /\ cur[t] = "S0"
        /\ sawTmo[t]
        /\ pll["S0"].ENABLE = 1
        /\ Overrides(pll, "S0") = <<0, 0, 0>>
        /\ clk.hw_seq = {"P0", "S0"}

\* ------------------------------------------- the polls as loops, and fairness
\* msecs_to_jiffies(100), scaled down: jiffies from the arming of a poll loop
\* to its timeout
PollJiffies == 2

liveFrame == <<usb3Vars, otgCfg, vbus_id, otg_vbus_on, supply, vbus_en, work, wpc, wreg,
               rc, reg, set, nOvr, runVars, wakeVars, usb2Vars, initVars, tailVars,
               cfgVars, lock,
               enable, tmp, uret, ret, cur, hwVars, dmesg, rstFailed, callVars, cntVars>>

\* the code after a poll loop: if (time_after_eq(jiffies, timeout)) err =
\* -ETIMEDOUT; the outcomes are those of Poll
PollLeave(t, to, name, o) ==
    /\ err' = [err EXCEPT ![t] = IF o = "ok" THEN @ ELSE -ETIMEDOUT]
    /\ tmo' = [tmo EXCEPT ![t] = IF o = "timeout" THEN name ELSE @]
    /\ sawTmo' = [sawTmo EXCEPT ![t] = @ \/ (o = "timeout")]
    /\ timeout' = [timeout EXCEPT ![t] = NoTimeout]
    /\ Emit(t, cur[t], name)
    /\ Goto(t, to)

\* a poll loop that never leaves before its timeout
PollLoop_unbounded(t, from, to, name) ==
    /\ pc[t] = from
    /\ timeout' = [timeout EXCEPT ![t] = PollJiffies]
    /\ UNCHANGED <<pc, err, tmo, sawTmo, trace, liveFrame>>

\* one step of a poll loop: timeout = jiffies + msecs_to_jiffies(100); then per
\* iteration while (time_before(jiffies, timeout)) { read the status; if it has
\* the awaited value, break; usleep_range(10, 20); } and after the loop the
\* time_after_eq test. The hardware may never show the awaited value. An
\* iteration whose sleep ends within the same jiffy changes nothing.
PollLoop(t, from, to, name) ==
    /\ pc[t] = from
    /\ \/ /\ timeout[t] = NoTimeout
          /\ timeout' = [timeout EXCEPT ![t] = PollJiffies]
          /\ UNCHANGED <<pc, err, tmo, sawTmo, trace>>
       \/ /\ timeout[t] > 0
          /\ \/ \E o \in {"ok", "late"} : PollLeave(t, to, name, o)
             \/ /\ timeout' = [timeout EXCEPT ![t] = @ - 1]
                /\ UNCHANGED <<pc, err, tmo, sawTmo, trace>>
       \/ /\ timeout[t] = 0
          /\ PollLeave(t, to, name, "timeout")
    /\ UNCHANGED liveFrame

uphy_loop_cal_done(t) == PollLoop(t, "u_wait_cal_done", "u_cal_en_clr", "cal_done")

uphy_loop_cal_clear(t) == PollLoop(t, "u_wait_cal_clear", "u_pll_en", "cal_clear")

uphy_loop_lockdet(t) == PollLoop(t, "u_wait_lockdet", "u_rcal_en", "lockdet")

uphy_loop_rcal_done(t) == PollLoop(t, "u_wait_rcal_done", "u_rcal_en_clr", "rcal_done")

uphy_loop_rcal_clear(t) == PollLoop(t, "u_wait_rcal_clear", "u_rcal_clk_clr", "rcal_clear")

\* the steps of thread t inside a call, the polls taken iteration by iteration
RunLive(t) ==
    \/ padctl_enable_read(t)
    \/ padctl_enable_incr(t)
    \/ padctl_enable_plle(t)
    \/ padctl_enable_mgmt(t)
    \/ uphy_rst(t)
    \/ pex_uphy_cfg(t)
    \/ uphy_cal_ctrl(t)
    \/ uphy_dco_ctrl(t)
    \/ uphy_pwr_ovrd(t)
    \/ uphy_cal_ovrd(t)
    \/ uphy_rcal_ovrd(t)
    \/ pex_uphy_ctl4(t)
    \/ sata_uphy_ctl4(t)
    \/ uphy_freq(t)
    \/ uphy_iddq(t)
    \/ uphy_sleep(t)
    \/ uphy_refclkbuf(t)
    \/ uphy_cal_en(t)
    \/ uphy_loop_cal_done(t)
    \/ uphy_cal_en_clr(t)
    \/ uphy_loop_cal_clear(t)
    \/ uphy_pll_en(t)
    \/ uphy_loop_lockdet(t)
    \/ uphy_rcal_en(t)
    \/ uphy_loop_rcal_done(t)
    \/ uphy_rcal_en_clr(t)
    \/ uphy_loop_rcal_clear(t)
    \/ uphy_rcal_clk_clr(t)
    \/ uphy_hw_ctl(t)
    \/ uphy_pwr_ovrd_clr(t)
    \/ uphy_cal_ovrd_clr(t)
    \/ uphy_rcal_ovrd_clr(t)
    \/ uphy_hw_seq(t)
    \/ padctl_enable_next(t)
    \/ padctl_enable_plle_hw(t)
    \/ padctl_enable_clamp(t)
    \/ padctl_enable_early(t)
    \/ padctl_enable_vcore(t)
    \/ padctl_enable_out(t)
    \/ padctl_disable_check(t)
    \/ padctl_disable_decr(t)
    \/ padctl_disable_vcore(t)
    \/ padctl_disable_early(t)
    \/ padctl_disable_clamp(t)
    \/ padctl_disable_out(t)
    \/ PhyReturn(t)

\* mutex_lock(&padctl->lock) of either function returns
AcquireLive(t) == padctl_enable_lock(t) \/ padctl_disable_lock(t)

NextLive ==
    \E t \in Threads :
        \/ tegra210_pcie_phy_init(t)
        \/ tegra210_sata_phy_init(t)
        \/ tegra210_pcie_phy_exit(t)
        \/ tegra210_sata_phy_exit(t)
        \/ AcquireLive(t)
        \/ RunLive(t)

\* Scheduling: a thread that can take a step of the function it is in
\* eventually takes one (the scheduler runs every runnable thread, jiffies
\* advance while a poll sleeps), and a thread blocked in mutex_lock gets the
\* mutex if it is free again and again (a waiter may be overtaken by a caller
\* that finds the mutex free, but not for ever). Whether a caller makes
\* another call is left open.
FairLive ==
    \A t \in Threads : WF_vars(RunLive(t)) /\ SF_vars(AcquireLive(t))

SpecLive == Init /\ [][NextLive]_vars /\ FairLive

\* thread t runs a calibration sequence (tegra210_pex_uphy_enable or
\* tegra210_sata_uphy_enable)
InCalibration(t) == cur[t] # "none" /\ pc[t] # "u_ret"

\* thread t is blocked in mutex_lock(&padctl->lock)
Queued(t) == pc[t] \in {"e_lock", "d_lock"} /\ lock # t

\* every started calibration sequence returns, whatever the status bits do
C31_CalibrationReturns ==
    \A t \in Threads : InCalibration(t) ~> (pc[t] = "u_ret")

\* a thread leaves a poll loop it has armed
C31_PollGivesUp ==
    \A t \in Threads : (timeout[t] # NoTimeout) ~> (timeout[t] = NoTimeout)

\* C31: every calibration sequence terminates even if the hardware never
\* shows the awaited cal-done, lock-detect or rcal-done status, and a caller
\* blocked on padctl->lock while another thread's calibration is in flight
\* eventually gets the lock.
C31_QueuedCallerAcquires ==
    /\ C31_CalibrationReturns
    /\ \A t \in Threads :
          (Queued(t) /\ \E u \in Threads : lock = u /\ InCalibration(u)) ~> (lock = t)

\* the same with the lock asked for only where no call has returned holding it
C31_QueuedCallerAcquiresUnlessLeaked ==
    \A t \in Threads :
        (Queued(t) /\ \E u \in Threads : lock = u /\ InCalibration(u))
            ~> (lock = t \/ \E u \in Threads : pc[u] = "ret" /\ lock = u)

\* C32: every call of tegra210_xusb_padctl_enable returns with padctl->lock
\* released, on the success path and on the clock-failure paths alike.
C32_EnableReturnsUnlocked ==
    \A t \in Threads :
        (pc[t] = "ret" /\ op[t] = "enable") => lock # t

\* the wake-interrupt-enable bits of ELPG_PROGRAM_0: USB2 ports 0-3, SuperSpeed
\* ports 0-3, HSIC port 0
WakeEnableBits ==
    {USB2_PORT_WAKE_INTERRUPT_ENABLE(i) : i \in 0 .. 3}
    \cup {SS_PORT_WAKE_INTERRUPT_ENABLE(i) : i \in 0 .. 3}
    \cup {USB2_HSIC_PORT_WAKE_INTERRUPT_ENABLE(0)}

\* thread t makes a register write of enable_wake / disable_wake in this step
WakeWrite(t) == pc[t] \in {"wk_first", "wk_second"} /\ pc'[t] # pc[t]

\* no wake-interrupt-enable bit but that of t's port changes in this step
OtherEnablesKept(t) ==
    \A b \in WakeEnableBits \ {WakeEnableBit(impl[t], index[t])} :
        b \in elpg0' <=> b \in elpg0

\* C33: every register write of enable_wake and disable_wake, of the USB2, HSIC
\* and SuperSpeed implementations alike, leaves the wake-interrupt-enable bit
\* of every other port as it was.
C33_OtherEnableBitsKept ==
    [][\A t \in Threads : WakeWrite(t) => OtherEnablesKept(t)]_vars

\* the same for every write but those of the HSIC disable_wake
C33_OtherEnableBitsKeptButHsicDisable ==
    [][\A t \in Threads :
          (WakeWrite(t) /\ ~(impl[t] = "hsic" /\ ~wen[t])) => OtherEnablesKept(t)]_vars

\* tegra210_{usb3,utmi,hsic}_phy_remote_wake_detected(padctl, port)
remote_wake_detected(k, ix) ==
    WakeEnableBit(k, ix) \in elpg0 /\ WakeEventBit(k, ix) \in elpg0

\* thread t has made both register writes of a disable_wake and still holds
\* the lock
DisableWakeDone(t) ==
    /\ pc[t] = "ph_unlock" /\ impl[t] \in Impls
    /\ ~wen[t] /\ speed[t] = "USB_SPEED_UNKNOWN"

\* C34: when disable_wake of a port has made its writes, after an enable_wake
\* or not, the port's wake-interrupt-enable bit is clear and
\* remote_wake_detected of the port reports false, for USB2, HSIC and
\* SuperSpeed ports.
C34_DisableWakeClearsEnable ==
    \A t \in Threads :
        DisableWakeDone(t) =>
            /\ WakeEnableBit(impl[t], index[t]) \notin elpg0
            /\ ~remote_wake_detected(impl[t], index[t])

\* the same for the USB2 and SuperSpeed ports only
C34_DisableWakeClearsEnableButHsic ==
    \A t \in Threads :
        (DisableWakeDone(t) /\ impl[t] # "hsic") =>
            /\ WakeEnableBit(impl[t], index[t]) \notin elpg0
            /\ ~remote_wake_detected(impl[t], index[t])

\* ------------------------------------------------ HSIC lane power_on / power_off
MaxHsicOps == 3

\* values the device tree gives hsic->tx_rtune_p
RtuneValues == {0, 9}

\* the variables no step of an HSIC power call changes
hsicFrame == <<laneBase, usb2Vars, sspx, elpg0, elpg1, impl, wen, speed, reg0, nEvt,
               nLaneOps, pmc, utmi_pad_cfg, hsic_lane, padCfgVars, otg_pad_ctl0, pmcVars>>

\* phy_power_on / phy_power_off of the HSIC phy reach the driver one at a
\* time and in turns: power_on with the phy off, power_off with it on
HsicCall(t, entry, on) ==
    /\ pc[t] = "idle"
    /\ nHsicOps < MaxHsicOps
    /\ hsic_power = on
    /\ \A u \in Threads : lane[u].type # "hsic"
    /\ nHsicOps' = nHsicOps + 1
    /\ index' = [index EXCEPT ![t] = 0]
    /\ lane' = [lane EXCEPT ![t] = [type |-> "hsic", index |-> 0]]
    /\ wen' = [wen EXCEPT ![t] = (on = 0)]
    /\ Goto(t, entry)
    /\ UNCHANGED <<laneBase, usb2Vars, sspx, elpg0, elpg1, impl, speed, reg0, nEvt,
                   nLaneOps, pmc, utmi_pad_cfg, padCfgVars, otg_pad_ctl0, pmcVars,
                   hsic_lane, hsic_regs, hsic_supply,
                   hsic_clk, hsic_power, lock, ret>>

tegra210_hsic_phy_power_on(t) == HsicCall(t, "hs_lock", 0)

tegra210_hsic_phy_power_off(t) == HsicCall(t, "hs_lock", 1)

\* mutex_lock(&padctl->lock)
hsic_lock(t) ==
    /\ pc[t] = "hs_lock"
    /\ LockFree
    /\ lock' = t
    /\ Goto(t, IF wen[t] THEN "hs_reg" ELSE "hs_off")
    /\ UNCHANGED <<hsicFrame, hsic_regs, hsic_supply, hsic_clk, hsic_power, nHsicOps,
                   ret, index, lane>>

\* err = regulator_enable(pad->supply); if (err) { mutex_unlock; return err; }
\* (priv->prod_list is NULL: no prod settings)
hsic_phy_power_on_supply(t) ==
    /\ pc[t] = "hs_reg"
    /\ \E e \in RegErrs :
          /\ ret' = [ret EXCEPT ![t] = e]
          /\ hsic_supply' = IF e = 0 THEN hsic_supply + 1 ELSE hsic_supply
          /\ Goto(t, IF e = 0 THEN "hs_pads" ELSE "hs_unlock")
    /\ UNCHANGED <<hsicFrame, hsic_regs, hsic_clk, hsic_power, nHsicOps, lock, index,
                   lane>>

\* the writes of HSIC_STRB_TRIM_CONTROL, HSIC_PADX_CTL1 (TX_RTUNEP),
\* HSIC_PADX_CTL2 (RX trims) and HSIC_PADX_CTL0 (pull-ups and power-downs
\* cleared, pull-downs set)
hsic_phy_power_on_pads(t) ==
    /\ pc[t] = "hs_pads"
    /\ hsic_regs' =
          [hsic_regs EXCEPT
              !.strb_trim = hsic_lane.strobe_trim,
              !.ctl1 = (@ \ HSIC_PAD_CTL1_TX_RTUNEP) \cup BitsOf(hsic_lane.tx_rtune_p, 0),
              !.ctl2 = [RX_STROBE_TRIM |-> hsic_lane.rx_strobe_trim,
                        RX_DATA_TRIM |-> hsic_lane.rx_data_trim],
              !.ctl0 = (@ \ (HSIC_PAD_CTL0_RPU \cup HSIC_PAD_CTL0_PD))
                          \cup HSIC_PAD_CTL0_RPD]
    /\ Goto(t, "hs_clk")
    /\ UNCHANGED <<hsicFrame, hsic_supply, hsic_clk, hsic_power, nHsicOps, lock, ret,
                   index, lane>>

\* err = clk_prepare_enable(pad->clk); if (err) goto disable;
\* disable: regulator_disable(pad->supply); mutex_unlock; return err
hsic_phy_power_on_clk(t) ==
    /\ pc[t] = "hs_clk"
    /\ \E e \in ClkErrs :
          /\ ret' = [ret EXCEPT ![t] = e]
          /\ hsic_clk' = IF e = 0 THEN hsic_clk + 1 ELSE hsic_clk
          /\ hsic_supply' = IF e = 0 THEN hsic_supply ELSE hsic_supply - 1
          /\ Goto(t, IF e = 0 THEN "hs_trk" ELSE "hs_unlock")
    /\ UNCHANGED <<hsicFrame, hsic_regs, hsic_power, nHsicOps, lock, index, lane>>

\* HSIC_PAD_TRK_CTL: the two timers, then PD_TRK cleared;
\* clk_disable_unprepare(pad->clk)
hsic_phy_power_on_trk(t) ==
    /\ pc[t] = "hs_trk"
    /\ hsic_regs' = [hsic_regs EXCEPT
                        !.trk_ctl = [PD_TRK |-> 0, TRK_START_TIMER |-> 30,
                                     TRK_DONE_RESET_TIMER |-> 10]]
    /\ hsic_clk' = hsic_clk - 1
    /\ Goto(t, "hs_unlock")
    /\ UNCHANGED <<hsicFrame, hsic_supply, hsic_power, nHsicOps, lock, ret, index, lane>>

\* a power_off that writes the register it read
hsic_phy_power_off_write_ctl0(t) ==
    /\ pc[t] = "hs_off"
    /\ hsic_regs' = [hsic_regs EXCEPT !.ctl0 = @ \cup HSIC_PAD_CTL0_PD]
    /\ hsic_supply' = hsic_supply - 1
    /\ ret' = [ret EXCEPT ![t] = 0]
    /\ Goto(t, "hs_unlock")
    /\ UNCHANGED <<hsicFrame, hsic_clk, hsic_power, nHsicOps, lock, index, lane>>

\* value = padctl_readl(HSIC_PADX_CTL0(index)); value |= the nine PD bits;
\* padctl_writel(padctl, value, HSIC_PADX_CTL1(index));
\* regulator_disable(pad->supply)
hsic_phy_power_off_write(t) ==
    /\ pc[t] = "hs_off"
    /\ hsic_regs' = [hsic_regs EXCEPT !.ctl1 = hsic_regs.ctl0 \cup HSIC_PAD_CTL0_PD]
    /\ hsic_supply' = hsic_supply - 1
    /\ ret' = [ret EXCEPT ![t] = 0]
    /\ Goto(t, "hs_unlock")
    /\ UNCHANGED <<hsicFrame, hsic_clk, hsic_power, nHsicOps, lock, index, lane>>

\* mutex_unlock(&padctl->lock); return; the phy core counts the power_on
\* that returned 0 and the power_off
hsic_unlock(t) ==
    /\ pc[t] = "hs_unlock"
    /\ lock' = NoThread
    /\ hsic_power' = IF wen[t] THEN (IF ret[t] = 0 THEN 1 ELSE 0) ELSE 0
    /\ Goto(t, "ln_ret")
    /\ UNCHANGED <<hsicFrame, hsic_regs, hsic_supply, hsic_clk, nHsicOps, ret, index,
                   lane>>

InitHsic ==
    /\ InitPadctl
    /\ soc = "tegra210"
    /\ sata_used_by_xusb = FALSE
    /\ InitUsb3Regs
    /\ InitOtgState
    /\ InitLaneState
    /\ InitPadDefaults
    /\ hsic_regs = HsicRegsDown
    /\ hsic_lane \in [tx_rtune_p : RtuneValues, strobe_trim : {5},
                      rx_strobe_trim : {3}, rx_data_trim : {11}]
    /\ wake_w1c = FALSE
    /\ bias_pad_ctl1 = 0
    /\ fuse = [rpd_ctrl |-> 0, hs_term_range_adj |-> 0]
    /\ usb3_port = [p \in SsPorts |-> p]
    /\ usb3_internal = [p \in SsPorts |-> FALSE]
    /\ xusb_lanes = Lanes
    /\ otg_vbus_alwayson = FALSE
    /\ oc_pinctrl = FALSE
    /\ supply = "off"

NextHsic ==
    \E t \in Threads :
        \/ tegra210_hsic_phy_power_on(t)
        \/ tegra210_hsic_phy_power_off(t)
        \/ hsic_lock(t)
        \/ hsic_phy_power_on_supply(t)
        \/ hsic_phy_power_on_pads(t)
        \/ hsic_phy_power_on_clk(t)
        \/ hsic_phy_power_on_trk(t)
        \/ hsic_phy_power_off_write(t)
        \/ hsic_unlock(t)
        \/ lane_return(t)

SpecHsic == InitHsic /\ [][NextHsic]_vars

\* thread t makes the register write of HSIC power_off in this step
HsicOffStep(t) == pc[t] = "hs_off" /\ pc'[t] # pc[t]

\* C35: HSIC lane power_off sets the nine receiver, ZI and transmitter
\* power-down bits in HSIC_PADX_CTL0, the register power_on cleared them in,
\* and leaves HSIC_PADX_CTL1 with its TX_RTUNEP trim unchanged.
C35_PowerOffSetsPdInCtl0 ==
    [][\A t \in Threads :
          HsicOffStep(t) =>
              /\ HSIC_PAD_CTL0_PD \subseteq hsic_regs'.ctl0
              /\ hsic_regs'.ctl1 = hsic_regs.ctl1]_vars

\* C36: for a host-capability USB2 port with a bus-power supply, with or
\* without over-current pin control and whether or not the port has an
\* over-current pin, lane exit never has issued more regulator disables than
\* lane init has issued enables: the enable count of port->supply never goes
\* below zero.
C36_RegulatorBalanced ==
    \A i \in Usb2Ports :
        (Usb2PortSupply[i] /\ Usb2PortCap[i] = "USB_HOST_CAP") => port_supply[i] >= 0

\* the same where over-current handling is off for the port
C36_RegulatorBalancedWithoutOc ==
    \A i \in Usb2Ports :
        (/\ Usb2PortSupply[i] /\ Usb2PortCap[i] = "USB_HOST_CAP"
         /\ (~oc_pinctrl \/ Usb2OcPin[i] < 0)) => port_supply[i] >= 0

\* ============================================ OTG overrides, one call at a time
\* no other caller is inside vbus_override or id_override
NoOverlap(t) == \A u \in Threads \ {t} : pc[u] = "idle"

\* the role switch driver issues the overrides one after the other; the work
\* item runs beside them
NextOtgSeq ==
    \/ \E t \in Threads :
          \/ NoOverlap(t) /\ vbus_override_read(t)
          \/ vbus_override_write(t)
          \/ NoOverlap(t) /\ id_override_read(t)
          \/ id_override_clear(t)
          \/ id_override_reread(t)
          \/ id_override_write(t)
          \/ override_schedule(t)
    \/ \E w \in {Worker} :
          \/ otg_vbus_work(w)
          \/ otg_vbus_handle_read(w)
          \/ vbus_power_on_check(w)
          \/ vbus_power_on_lock(w)
          \/ vbus_power_on_body(w)
          \/ vbus_power_on_unlock(w)
          \/ otg_vbus_handle_on(w)
          \/ vbus_power_off_check(w)
          \/ vbus_power_off_lock(w)
          \/ vbus_power_off_body(w)
          \/ vbus_power_off_unlock(w)
          \/ otg_vbus_handle_off(w)

SpecOtgSeq == InitOtg /\ [][NextOtgSeq]_vars

\* the register has the VBUS override on while the ID override is grounded
VbusOnWhileGrounded(v) == v.VBUS_ON = 1 /\ v.ID = ID_OVERRIDE_GROUNDED

\* C38: starting with the VBUS override off, after any sequence of
\* non-overlapping vbus_override and id_override calls the VBUS/ID register
\* never has the VBUS override on while the ID override is grounded; the write
\* of id_override(true) that grounds ID finds the VBUS override dropped, and the
\* write of vbus_override(true) leaves the ID override floating.
C38_NoVbusWhileGrounded ==
    /\ [](~VbusOnWhileGrounded(vbus_id))
    /\ [][\A t \in Threads :
             /\ (pc[t] = "io_write" /\ pc'[t] = "o_sched" /\ set[t]) =>
                    (vbus_id.VBUS_ON = 0 /\ vbus_id'.ID = ID_OVERRIDE_GROUNDED)
             /\ (pc[t] = "vo_write" /\ pc'[t] = "o_sched" /\ set[t]) =>
                    (vbus_id'.VBUS_ON = 1 /\ vbus_id'.ID = ID_OVERRIDE_FLOATING)]_vars

\* the last of MaxOverrides calls is an id_override(true) that found the VBUS
\* override on and has dropped it before it grounds ID
C38_Witness ==
    \E t \in Threads :
        /\ pc[t] = "io_reread"
        /\ set[t]
        /\ vbus_id.VBUS_ON = 0
        /\ nOvr = MaxOverrides

\* ================================== USB2 lanes with a fake SuperSpeed port
\* device trees in which USB2 port 0, or both USB2 ports, have a fake
\* SuperSpeed port (nvidia,usb3-port-fake)
FakePortMaps == {[i \in 0 .. 1 |-> IF i = 0 THEN 2 ELSE NoPort],
                 [i \in 0 .. 1 |-> i + 2]}

InitUsb2Fake ==
    /\ InitPadctl
    /\ soc = "tegra210"
    /\ sata_used_by_xusb = FALSE
    /\ InitUsb3Regs
    /\ InitOtgState
    /\ InitLaneState
    /\ InitHsicRegs
    /\ usb3_port_fake \in FakePortMaps
    /\ otg_pad_ctl0 = [i \in 0 .. 3 |-> OTG_PAD_CTL0_PD]
    /\ hs_curr_level = [i \in 0 .. 3 |-> 0]
    /\ hs_curr_level_offset = [i \in 0 .. 3 |-> 0]
    /\ pmc_regs = [o \in PmcOffsets |-> {}]
    /\ wake_w1c = FALSE
    /\ bias_pad_ctl1 = 2 ^ 26
    /\ fuse = [rpd_ctrl |-> 21, hs_term_range_adj |-> 9]
    /\ usb3_port = [p \in SsPorts |-> p]
    /\ usb3_internal = [p \in SsPorts |-> FALSE]
    /\ xusb_lanes = Lanes
    /\ otg_vbus_alwayson = FALSE
    /\ oc_pinctrl = FALSE
    /\ supply = "off"

\* power_on and power_off of the USB2 lanes
NextUsb2Power ==
    \E t \in Threads :
        \/ tegra210_usb2_phy_power_on(t)
        \/ tegra210_usb2_phy_power_off(t)
        \/ usb2_lock(t)
        \/ usb2_phy_power_on_pad(t)
        \/ usb2_phy_power_on_count(t)
        \/ usb2_phy_power_on_arm(t)
        \/ usb2_phy_power_on_incr(t)
        \/ usb2_phy_power_off_count(t)
        \/ usb2_unlock(t)
        \/ lane_return(t)

SpecUsb2Fake == InitUsb2Fake /\ [][NextUsb2Power]_vars

\* thread t runs the body of power_off, for a lane whose port has a fake
\* SuperSpeed port, in this step
FakePowerOffStep(t) ==
    /\ pc[t] = "u2off_count"
    /\ pc'[t] = "u2_unlock"
    /\ usb3_port_fake[index[t]] # NoPort

\* SuperSpeed port f is clamped and unmapped in the next state
FakePortDown(f) ==
    /\ sspx'[f] = [CLAMP_EN |-> 1, CLAMP_EN_EARLY |-> 1, VCORE_DOWN |-> 1]
    /\ ss_port_map'[f].MAP = PORTX_MAP_DISABLED

\* C37: for every USB2 lane whose port has a fake USB3 port, power_off leaves
\* that port's CLAMP_EN, CLAMP_EN_EARLY and VCORE_DOWN bits set and its port-map
\* field PORTX_MAP_DISABLED, in any sequence of power_on / power_off calls over
\* the USB2 lanes of the pad.
C37_PowerOffClampsFakePort ==
    [][\A t \in Threads :
          FakePowerOffStep(t) => FakePortDown(usb3_port_fake[index[t]])]_vars

\* the same for the power_off calls that find the pad powered (pad->enable > 0,
\* so no power_on has failed half-way and no power_off is unpaired)
C37_PoweredPadPowerOffClampsFakePort ==
    [][\A t \in Threads :
          (FakePowerOffStep(t) /\ usb2_enable > 0) =>
              FakePortDown(usb3_port_fake[index[t]])]_vars

\* the same for the power_off that takes pad->enable to zero
C37_LastPowerOffClampsFakePort ==
    [][\A t \in Threads :
          (FakePowerOffStep(t) /\ usb2_enable = 1) =>
              FakePortDown(usb3_port_fake[index[t]])]_vars

\* ================================== USB2 lane power_on: HS_CURR_LEVEL
\* values of nvidia,hs_curr_level_offset in the device tree, and register
\* contents power_on may find in XUSB_PADCTL_USB2_OTG_PADX_CTL0
HsCurrLevelOffsets == {0, 1, 5}
OtgPadCtl0Values == {OTG_PAD_CTL0_PD, OTG_PAD_CTL0_PD \cup {3, 7, 21}}

\* the fuse trims are six bits wide (tegra210_xusb_read_fuse_calibration masks
\* them with FUSE_SKU_CALIB_HS_CURR_LEVEL_PAD_MASK, 0x3f)
InitUsb2Level ==
    /\ InitPadctl
    /\ soc = "tegra210"
    /\ sata_used_by_xusb = FALSE
    /\ InitUsb3Regs
    /\ InitOtgState
    /\ InitLaneState
    /\ InitHsicRegs
    /\ usb3_port_fake = [i \in 0 .. 1 |-> NoPort]
    /\ \E v \in OtgPadCtl0Values : otg_pad_ctl0 = [i \in 0 .. 3 |-> v]
    /\ \E l \in 0 .. 63 : hs_curr_level = [i \in 0 .. 3 |-> l]
    /\ \E o \in HsCurrLevelOffsets : hs_curr_level_offset = [i \in 0 .. 3 |-> o]
    /\ pmc_regs = [o \in PmcOffsets |-> {}]
    /\ wake_w1c = FALSE
    /\ bias_pad_ctl1 = 2 ^ 26
    /\ fuse = [rpd_ctrl |-> 21, hs_term_range_adj |-> 9]
    /\ usb3_port = [p \in SsPorts |-> p]
    /\ usb3_internal = [p \in SsPorts |-> FALSE]
    /\ xusb_lanes = Lanes
    /\ otg_vbus_alwayson = FALSE
    /\ oc_pinctrl = FALSE
    /\ supply = "off"

\* power_on of the USB2 lanes by one caller
NextUsb2On ==
    \E t \in {1} :
        \/ tegra210_usb2_phy_power_on(t)
        \/ usb2_lock(t)
        \/ usb2_phy_power_on_pad(t)
        \/ usb2_phy_power_on_count(t)
        \/ usb2_phy_power_on_arm(t)
        \/ usb2_phy_power_on_incr(t)
        \/ usb2_unlock(t)
        \/ lane_return(t)

SpecUsb2Level == InitUsb2Level /\ [][NextUsb2On]_vars

\* thread t makes the register writes of power_on in this step
PowerOnPadStep(t) == pc[t] = "u2on_pad" /\ pc'[t] = "u2on_count"

\* the bits of OTG_PADX_CTL0 outside HS_CURR_LEVEL and the three power-down bits
OtgPadCtl0Rest(v) == v \ (OTG_PAD_CTL0_HS_CURR_LEVEL \cup OTG_PAD_CTL0_PD)

\* C40: USB2 lane power_on programs HS_CURR_LEVEL from the fuse trim plus the
\* lane's offset such that the written value stays inside the 6-bit field: for
\* every fuse value in 0..63 and every offset, no bit of OTG_PADX_CTL0 outside
\* HS_CURR_LEVEL and the three power-down bits it clears is changed.
C40_CurrLevelStaysInField ==
    [][\A t \in Threads :
          PowerOnPadStep(t) =>
              OtgPadCtl0Rest(otg_pad_ctl0'[index[t]]) =
                  OtgPadCtl0Rest(otg_pad_ctl0[index[t]])]_vars

\* the same where fuse trim plus offset is at most 63; the field then holds
\* the sum and the power-down bits are clear
C40_CurrLevelStaysInFieldUpTo63 ==
    [][\A t \in Threads :
          (PowerOnPadStep(t) /\ hs_curr_level[index[t]] + hs_curr_level_offset[index[t]] <= 63) =>
              /\ OtgPadCtl0Rest(otg_pad_ctl0'[index[t]]) =
                     OtgPadCtl0Rest(otg_pad_ctl0[index[t]])
              /\ otg_pad_ctl0'[index[t]] \cap OTG_PAD_CTL0_PD = {}
              /\ otg_pad_ctl0'[index[t]] \cap OTG_PAD_CTL0_HS_CURR_LEVEL =
                     BitsOf(hs_curr_level[index[t]] + hs_curr_level_offset[index[t]], 0)]_vars

\* ======================================= PMC: USB2 sleepwalk hand-over
\* UTMIP(_port, _offset1, _offset2): ports 0 .. 2 share one set of registers,
\* port 3 has its own
UTMIP(x, o1, o2) == IF x <= 2 THEN o1 ELSE o2

\* register offsets
APBDEV_PMC_USB_DEBOUNCE_DEL == 236
APBDEV_PMC_USB_AO == 240
APBDEV_PMC_UTMIP_UHSIC_TRIGGERS == 492
APBDEV_PMC_UTMIP_TERM_PAD_CFG == 504
APBDEV_PMC_UTMIP_UHSIC_LINE_WAKEUP == 620
APBDEV_PMC_UTMIP_MASTER_CONFIG == 628
APBDEV_PMC_UTMIP_UHSIC_SLEEP_CFG1 == 1232
APBDEV_PMC_UTMIP_UHSIC_SLEEP_CFG(x) == UTMIP(x, 508, 1232)
APBDEV_PMC_UTMIP_UHSIC_FAKE(x) == UTMIP(x, 536, 660)
APBDEV_PMC_UTMIP_UHSIC_SLEEPWALK_CFG(x) == UTMIP(x, 512, 648)
APBDEV_PMC_UTMIP_UHSIC_SAVED_STATE(x) == UTMIP(x, 496, 640)
APBDEV_PMC_UTMIP_SLEEPWALK_PX(x) == UTMIP(x, 516 + 4 * x, 1248)
APBDEV_PMC_UTMIP_PAD_CFGX(x) == 1216 + 4 * x

\* the bits of port x in these registers, as sets of bit numbers
UTMIP_MASTER_ENABLE(x) == {UTMIP(x, 8 * x, 0)}
UTMIP_FSLS_USE_PMC(x) == {UTMIP(x, 8 * x + 1, 1)}
UTMIP_PCTRL_USE_PMC(x) == {UTMIP(x, 8 * x + 2, 2)}
UTMIP_TCTRL_USE_PMC(x) == {UTMIP(x, 8 * x + 3, 3)}
UTMIP_WAKE_VAL(x, v) == BitsOf(v % 16, UTMIP(x, 8 * x + 4, 4))
UTMIP_WAKE_VAL_NONE(x) == UTMIP_WAKE_VAL(x, 12)
UTMIP_WAKE_VAL_ANY(x) == UTMIP_WAKE_VAL(x, 15)
UTMIP_RPU_SWITC_LOW_USE_PMC_PX(x) == {x + 8}
UTMIP_RPD_CTRL_USE_PMC_PX(x) == {x + 16}
UTMIP_PWR(x) == {UTMIP(x, x, 4)}
UTMIP_LINE_DEB_CNT(v) == BitsOf(v % 16, 16)
UTMIP_FAKE(x) == UTMIP(x, 4 * x .. 4 * x + 3, 8 .. 11)
UTMIP_WALK_EN(x) == UTMIP(x, {8 * x + 6, 8 * x + 7}, {14, 15})
USB_VAL_PD(x) == UTMIP(x, {4 * x, 4 * x + 1}, {20, 21})
SPEED(x, v) == BitsOf(v % 4, UTMIP(x, 8 * x, 8))
UTMIP_CLR_WALK_PTR(x) == {UTMIP(x, x, 16)}
UTMIP_CAP_CFG(x) == {UTMIP(x, x + 4, 17)}
UTMIP_CLR_WAKE_ALARM(x) == {UTMIP(x, x + 12, 19)}
UTMIP_LINE_WAKEUP_EN(x) == {UTMIP(x, x, 4)}
PCTRL_VAL(v) == BitsOf(v % 64, 1)
TCTRL_VAL(v) == BitsOf(v % 64, 7)
RPD_CTRL_PX(v) == BitsOf(v % 32, 22)

\* UTMI_HS, UTMI_FS, UTMI_LS, UTMI_RST: the saved state of a speed
SavedState(s) ==
    IF s = "USB_SPEED_HIGH" THEN 0
    ELSE IF s = "USB_SPEED_FULL" THEN 1
    ELSE IF s = "USB_SPEED_LOW" THEN 2
    ELSE 3

\* the pulls of the four sleepwalk phases: USBOP_RPD and USBON_RPD in all of
\* them (bits 0, 1 of each byte) and, by speed, HIGHZ (bit 6), AP (bit 4) and
\* AN (bit 5)
SleepwalkPulls(s) ==
    {0, 8, 16, 24, 1, 9, 17, 25} \cup
    (IF s = "USB_SPEED_UNKNOWN" THEN {6, 14, 22, 30}
     ELSE IF s \in {"USB_SPEED_HIGH", "USB_SPEED_FULL"} THEN {6, 4, 13, 21, 29}
     ELSE IF s = "USB_SPEED_LOW" THEN {6, 5, 12, 20, 28}
     ELSE {})

\* a register write: reg = readl(o); reg &= ~c; reg |= s; writel(reg, o)
Rmw(o, c, s) == [off |-> o, clr |-> c, set |-> s]

\* a first write that leaves the master enable as it finds it
PmcDisableLogic_skipped(x) ==
    Rmw(APBDEV_PMC_UTMIP_UHSIC_SLEEP_CFG(x), {}, {})

\* the first write of both functions: reg &= ~UTMIP_MASTER_ENABLE(port)
PmcDisableLogic(x) ==
    Rmw(APBDEV_PMC_UTMIP_UHSIC_SLEEP_CFG(x), UTMIP_MASTER_ENABLE(x), {})

\* the register writes of tegra_pmc_utmi_phy_enable_sleepwalk(port, speed,
\* config), in program order
PmcEnableWrites(x, s, c) ==
    << PmcDisableLogic(x),
       Rmw(APBDEV_PMC_UTMIP_MASTER_CONFIG, {}, UTMIP_PWR(x)),
       Rmw(APBDEV_PMC_USB_DEBOUNCE_DEL, UTMIP_LINE_DEB_CNT(15), UTMIP_LINE_DEB_CNT(1)),
       Rmw(APBDEV_PMC_UTMIP_UHSIC_FAKE(x), UTMIP_FAKE(x), {}),
       Rmw(APBDEV_PMC_UTMIP_UHSIC_LINE_WAKEUP, UTMIP_LINE_WAKEUP_EN(x), {}),
       Rmw(APBDEV_PMC_UTMIP_UHSIC_SLEEP_CFG(x), UTMIP_WAKE_VAL(x, 15),
           UTMIP_WAKE_VAL_NONE(x)),
       Rmw(APBDEV_PMC_USB_AO, {}, USB_VAL_PD(x)),
       Rmw(APBDEV_PMC_UTMIP_UHSIC_SAVED_STATE(x), SPEED(x, 3), SPEED(x, SavedState(s))),
       Rmw(APBDEV_PMC_UTMIP_UHSIC_SLEEPWALK_CFG(x), {}, UTMIP_WALK_EN(x)),
       Rmw(APBDEV_PMC_UTMIP_UHSIC_TRIGGERS, {},
           UTMIP_CLR_WALK_PTR(x) \cup UTMIP_CLR_WAKE_ALARM(x) \cup UTMIP_CAP_CFG(x)),
       Rmw(APBDEV_PMC_UTMIP_TERM_PAD_CFG, TCTRL_VAL(63) \cup PCTRL_VAL(63),
           TCTRL_VAL(c.tctrl) \cup PCTRL_VAL(c.pctrl)),
       Rmw(APBDEV_PMC_UTMIP_PAD_CFGX(x), RPD_CTRL_PX(31), RPD_CTRL_PX(c.rpd_ctrl)),
       Rmw(APBDEV_PMC_UTMIP_SLEEPWALK_PX(x), 0 .. 31, SleepwalkPulls(s)),
       Rmw(APBDEV_PMC_USB_AO, USB_VAL_PD(x), {}),
       Rmw(APBDEV_PMC_UTMIP_UHSIC_SLEEP_CFG(x), {},
           UTMIP_FSLS_USE_PMC(x) \cup UTMIP_PCTRL_USE_PMC(x) \cup UTMIP_TCTRL_USE_PMC(x)),
       Rmw(APBDEV_PMC_UTMIP_UHSIC_SLEEP_CFG1, {},
           UTMIP_RPD_CTRL_USE_PMC_PX(x) \cup UTMIP_RPU_SWITC_LOW_USE_PMC_PX(x)),
       Rmw(APBDEV_PMC_UTMIP_UHSIC_SLEEP_CFG(x), UTMIP_WAKE_VAL(x, 15),
           UTMIP_WAKE_VAL_ANY(x)),
       Rmw(APBDEV_PMC_UTMIP_UHSIC_SLEEP_CFG(x), {}, UTMIP_MASTER_ENABLE(x)),
       Rmw(APBDEV_PMC_UTMIP_UHSIC_LINE_WAKEUP, {}, UTMIP_LINE_WAKEUP_EN(x)) >>

\* the register writes of tegra_pmc_utmi_phy_disable_sleepwalk(port), in
\* program order
PmcDisableWrites(x) ==
    << PmcDisableLogic(x),
       Rmw(APBDEV_PMC_UTMIP_UHSIC_LINE_WAKEUP, UTMIP_LINE_WAKEUP_EN(x), {}),
       Rmw(APBDEV_PMC_UTMIP_UHSIC_SLEEP_CFG(x),
           UTMIP_FSLS_USE_PMC(x) \cup UTMIP_PCTRL_USE_PMC(x) \cup UTMIP_TCTRL_USE_PMC(x),
           {}),
       Rmw(APBDEV_PMC_UTMIP_UHSIC_SLEEP_CFG1,
           UTMIP_RPD_CTRL_USE_PMC_PX(x) \cup UTMIP_RPU_SWITC_LOW_USE_PMC_PX(x), {}),
       Rmw(APBDEV_PMC_UTMIP_UHSIC_SLEEP_CFG(x), UTMIP_WAKE_VAL(x, 15),
           UTMIP_WAKE_VAL_NONE(x)),
       Rmw(APBDEV_PMC_USB_AO, {}, USB_VAL_PD(x)),
       Rmw(APBDEV_PMC_UTMIP_UHSIC_TRIGGERS, {}, UTMIP_CLR_WAKE_ALARM(x)) >>

\* the writes of the call thread t is in; config is read through the pointer
\* when the write is made
PmcWrites(t) ==
    IF wen[t] THEN PmcEnableWrites(index[t], speed[t], utmi_pad_cfg)
              ELSE PmcDisableWrites(index[t])

\* the USB2 lanes and the speeds the host controller driver hands over
PmcPorts == {0, 3}
PmcSpeeds == {"USB_SPEED_UNKNOWN", "USB_SPEED_HIGH", "USB_SPEED_LOW"}

pmcFrame == <<laneBase, hsicVars, padCfgVars, otg_pad_ctl0, usb2Vars, sspx, elpg0,
              elpg1, lock, reg0, nEvt, nLaneOps>>

\* phy_sleepwalk called with the phy of a USB2 lane; the host controller
\* driver hands its ports over one after the other, in its suspend and resume
\* paths
pmc_phy_sleepwalk_call(t) ==
    /\ NoOverlap(t)
    /\ LaneCall(t, {[type |-> "usb2", index |-> i] : i \in PmcPorts}, SleepwalkFirst,
                PmcSpeeds)
    /\ UNCHANGED nUsb2Ops

\* tegra_pmc_utmi_phy_enable_sleepwalk / _disable_sleepwalk is entered
tegra_pmc_utmi_phy_sleepwalk(t) ==
    /\ pc[t] = "pmc_call"
    /\ impl[t] = "utmi"
    /\ pmc' = [pmc EXCEPT ![t] =
                  IF wen[t]
                     THEN [op |-> "utmi_phy_enable_sleepwalk", index |-> index[t],
                           speed |-> speed[t], tctrl |-> utmi_pad_cfg.tctrl,
                           pctrl |-> utmi_pad_cfg.pctrl,
                           rpd_ctrl |-> utmi_pad_cfg.rpd_ctrl]
                     ELSE [NoPmcCall EXCEPT !.op = "utmi_phy_disable_sleepwalk",
                                            !.index = index[t]]]
    /\ pmc_step' = [pmc_step EXCEPT ![t] = 1]
    /\ nPmcOps' = nPmcOps + 1
    /\ Goto(t, "pm_run")
    /\ UNCHANGED <<pmcFrame, pmc_regs, ret, index, lane, impl, wen, speed, utmi_pad_cfg>>

\* the next register write of the function; after the last one it returns 0
tegra_pmc_utmi_phy_write(t) ==
    /\ pc[t] = "pm_run"
    /\ LET w == PmcWrites(t)[pmc_step[t]] IN
          pmc_regs' = [pmc_regs EXCEPT ![w.off] = (@ \ w.clr) \cup w.set]
    /\ IF pmc_step[t] = Len(PmcWrites(t))
          THEN /\ pmc_step' = [pmc_step EXCEPT ![t] = 1]
               /\ ret' = [ret EXCEPT ![t] = 0]
               /\ Goto(t, "ln_ret")
          ELSE /\ pmc_step' = [pmc_step EXCEPT ![t] = @ + 1]
               /\ UNCHANGED <<ret, pc>>
    /\ UNCHANGED <<pmcFrame, nPmcOps, pmc, index, lane, impl, wen, speed, utmi_pad_cfg>>

InitPmc ==
    /\ InitPadctl
    /\ soc = "tegra210"
    /\ sata_used_by_xusb = FALSE
    /\ InitUsb3Regs
    /\ InitOtgState
    /\ InitLaneState
    /\ InitHsicRegs
    /\ InitPadDefaults
    /\ wake_w1c = FALSE
    /\ bias_pad_ctl1 = 2 ^ 26 + 5 + 64 * 41
    /\ fuse = [rpd_ctrl |-> 21, hs_term_range_adj |-> 9]
    /\ usb3_port = [p \in SsPorts |-> p]
    /\ usb3_internal = [p \in SsPorts |-> FALSE]
    /\ xusb_lanes = Lanes
    /\ otg_vbus_alwayson = FALSE
    /\ oc_pinctrl = FALSE
    /\ supply = "off"

NextPmc ==
    \E t \in Threads :
        \/ pmc_phy_sleepwalk_call(t)
        \/ utmi_phy_get_pad_config(t)
        \/ tegra_pmc_utmi_phy_sleepwalk(t)
        \/ tegra_pmc_utmi_phy_write(t)
        \/ lane_return(t)

SpecPmc == InitPmc /\ [][NextPmc]_vars

\* bits of port x: master enable, line wakeup, and the five use-PMC bits
MasterEnabled(r, x) ==
    UTMIP_MASTER_ENABLE(x) \subseteq r[APBDEV_PMC_UTMIP_UHSIC_SLEEP_CFG(x)]
LineWakeup(r, x) ==
    UTMIP_LINE_WAKEUP_EN(x) \subseteq r[APBDEV_PMC_UTMIP_UHSIC_LINE_WAKEUP]
UsePmcBits(r, x) ==
    (r[APBDEV_PMC_UTMIP_UHSIC_SLEEP_CFG(x)] \cap
        (UTMIP_FSLS_USE_PMC(x) \cup UTMIP_PCTRL_USE_PMC(x) \cup UTMIP_TCTRL_USE_PMC(x)))
    \cup (r[APBDEV_PMC_UTMIP_UHSIC_SLEEP_CFG1] \cap
            (UTMIP_RPD_CTRL_USE_PMC_PX(x) \cup UTMIP_RPU_SWITC_LOW_USE_PMC_PX(x)))

\* thread t makes write k of an enable (e = TRUE) or disable hand-over
PmcStep(t, e, k) ==
    /\ pc[t] = "pm_run"
    /\ wen[t] = e
    /\ pmc_step[t] = k
    /\ pmc_regs' # pmc_regs \/ pmc_step' # pmc_step

\* C39: in the USB2 sleepwalk hand-over of a port the master enable is cleared
\* by the first write and is clear at every later write up to the one that
\* sets it, so while the saved speed, the electrical parameters and the pulls
\* are programmed and pad control is switched to the PMC; master enable and
\* line wakeup are set by the last two writes only; disable_sleepwalk clears
\* the master enable first and returns with master enable, line wakeup and
\* every use-PMC bit of the port clear.
C39_HandOverOrder ==
    [][\A t \in Threads :
          LET x == index[t] IN
          /\ \A e \in BOOLEAN : PmcStep(t, e, 1) => ~MasterEnabled(pmc_regs', x)
          /\ \A k \in 2 .. 17 :
                PmcStep(t, TRUE, k) =>
                    /\ ~MasterEnabled(pmc_regs, x) /\ ~MasterEnabled(pmc_regs', x)
                    /\ LineWakeup(pmc_regs', x) => LineWakeup(pmc_regs, x)
                    /\ k > 5 => ~LineWakeup(pmc_regs, x)
          /\ PmcStep(t, TRUE, 18) =>
                /\ ~MasterEnabled(pmc_regs, x) /\ MasterEnabled(pmc_regs', x)
                /\ ~LineWakeup(pmc_regs', x)
                /\ Cardinality(UsePmcBits(pmc_regs, x)) = 5
          /\ PmcStep(t, TRUE, 19) =>
                /\ MasterEnabled(pmc_regs', x) /\ LineWakeup(pmc_regs', x)
                /\ pc'[t] = "ln_ret"
          /\ (PmcStep(t, FALSE, 7) /\ pc'[t] = "ln_ret") =>
                /\ ~MasterEnabled(pmc_regs', x)
                /\ ~LineWakeup(pmc_regs', x)
                /\ UsePmcBits(pmc_regs', x) = {}
          /\ \A k \in 2 .. 7 : PmcStep(t, FALSE, k) => ~MasterEnabled(pmc_regs', x)]_vars

\* a port that was handed to the PMC (its walk enables are still set) has been
\* taken back: disable_sleepwalk has returned for it
C39_Witness ==
    \E t \in Threads :
        /\ pc[t] = "ln_ret"
        /\ impl[t] = "utmi"
        /\ ~wen[t]
        /\ nPmcOps = 2
        /\ UTMIP_WALK_EN(index[t]) \subseteq
              pmc_regs[APBDEV_PMC_UTMIP_UHSIC_SLEEPWALK_CFG(index[t])]
        /\ ~MasterEnabled(pmc_regs, index[t])

====
